---------------------------- MODULE Spec2Model ----------------------------
(***************************************************************************)
(* A model of SeriesInfoPanel/tempita.py: the lexer (lex, trim_lex,        *)
(* find_position), the recursive-descent parser (parse, parse_expr, ...)   *)
(* and the tree-walking interpreter of class Template.                     *)
(*                                                                         *)
(* Text is a sequence of one-character strings, so that slicing, strip(),  *)
(* startswith() and the regular expressions of the source are computed on  *)
(* characters as the source computes them.                                 *)
(***************************************************************************)
EXTENDS Integers, Sequences, FiniteSets, TLC

VARIABLES
    content,    \* the template text handed to lex / parse / Template(...)
    trim,       \* lex's trim_whitespace argument
    lexed,      \* what the lex(content) call returned or raised
    parsed,     \* what the parse(content) call returned or raised
    pc,         \* position of the caller: "start", "lexed", "parsed", "failed",
                \* "ready" (a Template is built), "running" (in substitute)
    args,       \* what the caller builds the Template with and the mapping it
                \* hands to substitute, as they were at the start
    files,      \* the template files get_file_template reads: name -> text
    tmpl,       \* the Template object the caller built
    dicts,      \* the dictionaries of the heap, by identity; CallerMap is the
                \* mapping the caller hands to substitute
    stack,      \* the activations of substitute and of the _interpret_*
                \* methods, outermost first
    out,        \* parts, the output list of the running _interpret
    defs,       \* defs, the dictionary of the running _interpret
    exc,        \* the exception in flight, NoExc when there is none
    result,     \* what the caller's last substitute call returned or raised
    calls,      \* the number of substitute calls the caller has made
    evaluated   \* the calls of the evaluator (eval, exec) made during the
                \* caller's last substitute call, in order

callVars == <<args, files, tmpl, dicts, stack, out, defs, exc, result, calls, evaluated>>
vars == <<content, trim, lexed, parsed, pc, args, files, tmpl, dicts, stack, out,
          defs, exc, result, calls, evaluated>>

-----------------------------------------------------------------------------
(* Bounds of the model.                                                    *)

\* longest text handed to lex in SpecLex
MaxLen == 6

\* most fragments (directives and literals) of a text handed to parse in
\* SpecParse
MaxParseFrags == 4

\* most substitute calls the caller makes on its Template
MaxCalls == 2

\* most statements of a loop body, most branches after the if of a
\* conditional, most filters of an expression and most directives of a
\* template of defaults, in the templates that are rendered
MaxStmts == 2

\* most items of the list a rendered loop runs over
MaxItems == 2

-----------------------------------------------------------------------------
(* Python values shared by all parts.                                      *)

\* a function call that returned v
Return(v) == [raised |-> FALSE, value |-> v]

\* a function call that raised TemplateError(message, position, name)
TemplateError(message, position, name) ==
    [raised |-> TRUE, type |-> "TemplateError", message |-> message,
     position |-> position, name |-> name]

\* a Python value that holds nothing the model looks into: its type
Value(t, v) == [t |-> t, v |-> v]

\* Python's None
None == Value("None", <<>>)

\* None where a (line, column) may stand: empty, and so false like None
NoPosition == <<>>

\* nothing was called yet
NotCalled == [raised |-> FALSE, value |-> <<>>, called |-> FALSE]

-----------------------------------------------------------------------------
(* Strings.                                                                *)

\* the characters str.strip() removes
Whitespace == {" ", "\t", "\n", "\r"}

\* s[a:b] of Python for 0 <= a, b <= len(s)
Slice(s, a, b) == SubSeq(s, a + 1, b)

\* s.startswith(p)
StartsWith(s, p) == Len(s) >= Len(p) /\ SubSeq(s, 1, Len(p)) = p

\* s.endswith(p)
EndsWith(s, p) == Len(s) >= Len(p) /\ SubSeq(s, Len(s) - Len(p) + 1, Len(s)) = p

RECURSIVE LStrip(_, _)
\* s.lstrip(chars)
LStrip(s, chars) ==
    IF s # <<>> /\ Head(s) \in chars THEN LStrip(Tail(s), chars) ELSE s

RECURSIVE RStrip(_, _)
\* s.rstrip(chars)
RStrip(s, chars) ==
    IF s # <<>> /\ s[Len(s)] \in chars
    THEN RStrip(SubSeq(s, 1, Len(s) - 1), chars) ELSE s

\* s.strip()
Strip(s) == RStrip(LStrip(s, Whitespace), Whitespace)

RECURSIVE Join(_)
\* ''.join(parts)
Join(parts) == IF parts = <<>> THEN <<>> ELSE Head(parts) \o Join(Tail(parts))

\* the j-th smallest number of the set B
Nth(B, j) == CHOOSE k \in B : Cardinality({b \in B : b <= k}) = j

\* the last position of the line of s whose terminator ends at k
LineEnd(s, k) == IF s[k] = "\n" /\ k > 1 /\ s[k - 1] = "\r" THEN k - 2 ELSE k - 1

\* s.splitlines(): the lines of s, split at \n, \r and \r\n, with no empty
\* last line
SplitLines(s) ==
    LET \* B: the positions where a line terminator ends, m: their number
        Lines(B, m) ==
            LET WithRest(full, rest) == IF rest = <<>> THEN full ELSE Append(full, rest)
            IN  WithRest([j \in 1..m |->
                             SubSeq(s, (IF j = 1 THEN 1 ELSE Nth(B, j - 1) + 1),
                                       LineEnd(s, Nth(B, j)))],
                         SubSeq(s, (IF m = 0 THEN 1 ELSE Nth(B, m) + 1), Len(s)))
        Ends(B) == Lines(B, Cardinality(B))
    IN  Ends({k \in 1..Len(s) :
                 s[k] = "\n" \/ (s[k] = "\r" /\ ~(k < Len(s) /\ s[k + 1] = "\n"))})

-----------------------------------------------------------------------------
(* Lexing.                                                                 *)

\* a chunk that is a plain string
StrChunk(s) == [kind |-> "str", text |-> s]

\* a chunk that is a directive: the tuple (text, pos)
TupleChunk(s, pos) == [kind |-> "tuple", text |-> s, pos |-> pos]

\* isinstance(tok, basestring)
IsStr(tok) == tok.kind = "str"

\* find_position with a column that starts at 0 (a plausible slip: the + 1
\* left out)
find_position_from_0(string, index, line_offset) ==
    LET Position(leading) ==
            <<Len(leading) + line_offset, Len(leading[Len(leading)])>>
    IN  Position(SplitLines(Slice(string, 0, index)))

\* find_position(string, index, line_offset): (line, column) of the index
find_position(string, index, line_offset) ==
    LET Position(leading) ==
            <<Len(leading) + line_offset, Len(leading[Len(leading)]) + 1>>
    IN  Position(SplitLines(Slice(string, 0, index)))

\* token_re matches at (1-based) i: the two characters there are {{ or }}
TokenAt(s, i) ==
    /\ i + 1 <= Len(s)
    /\ \/ s[i] = "{" /\ s[i + 1] = "{"
       \/ s[i] = "}" /\ s[i + 1] = "}"

\* the (1-based) start of the first match of token_re in s at or after
\* from, 0 when there is none
NextToken(s, from) ==
    LET First(M) == IF M = {} THEN 0 ELSE CHOOSE j \in M : \A r \in M : j <= r
    IN  First({j \in from..(Len(s) - 1) : TokenAt(s, j)})

\* statement_re: the directive text starts with a statement keyword
statement_re(item) ==
    \/ StartsWith(item, <<"i", "f", " ">>)
    \/ StartsWith(item, <<"e", "l", "i", "f", " ">>)
    \/ StartsWith(item, <<"e", "l", "s", "e", " ">>)
    \/ StartsWith(item, <<"f", "o", "r", " ">>)
    \/ StartsWith(item, <<"d", "e", "f", " ">>)
    \/ StartsWith(item, <<"i", "n", "h", "e", "r", "i", "t", " ">>)
    \/ StartsWith(item, <<"d", "e", "f", "a", "u", "l", "t", " ">>)
    \/ StartsWith(item, <<"p", "y", ":">>)

single_statements ==
    { <<"e", "n", "d", "i", "f">>,
      <<"e", "n", "d", "f", "o", "r">>,
      <<"e", "n", "d", "d", "e", "f">>,
      <<"c", "o", "n", "t", "i", "n", "u", "e">>,
      <<"b", "r", "e", "a", "k">> }

RECURSIVE BlankRun(_, _)
\* the index after the run of tabs and spaces of s that starts at (1-based) q
BlankRun(s, q) ==
    IF q <= Len(s) /\ s[q] \in {"\t", " "} THEN BlankRun(s, q + 1) ELSE q

\* trail_whitespace_re, \n\r?[\t ]*$, matches s starting at (1-based) p:
\* $ is the end of s or the place before a last \n
TrailAt(s, p) ==
    /\ s[p] = "\n"
    /\ LET q == IF p < Len(s) /\ s[p + 1] = "\r" THEN p + 2 ELSE p + 1
           e == BlankRun(s, q)
       IN  \/ e = Len(s) + 1
           \/ e = Len(s) /\ s[e] = "\n"

\* trail_whitespace_re.search(s): the (1-based) start of the leftmost match,
\* 0 when there is none
trail_whitespace_re(s) ==
    LET ps == {p \in 1..Len(s) : TrailAt(s, p)}
    IN  IF ps = {} THEN 0 ELSE CHOOSE p \in ps : \A r \in ps : p <= r

\* lead_whitespace_re.search(s), ^[\t ]*\n: the (0-based) end of the match,
\* 0 when there is none
lead_whitespace_re(s) ==
    LET e == BlankRun(s, 1)
    IN  IF e <= Len(s) /\ s[e] = "\n" THEN e ELSE 0

\* one round of trim_lex's loop, for the (1-based) token i
trim_step(tokens, i) ==
    LET current == tokens[i]
        n == Len(tokens)
    IN  IF IsStr(current) THEN tokens
        ELSE IF ~statement_re(current.text) /\ current.text \notin single_statements
        THEN tokens
        ELSE IF (i + 1 <= n /\ ~IsStr(tokens[i + 1])) \/ (i > 1 /\ ~IsStr(tokens[i - 1]))
        THEN tokens
        ELSE
        LET prev == IF i = 1 THEN <<>> ELSE tokens[i - 1].text
            next == IF i + 1 > n THEN <<>> ELSE tokens[i + 1].text
            prevBlank == i = 2 /\ Strip(prev) = <<>>
            nextBlank == i = n - 1 /\ Strip(next) = <<>>
        IN  IF /\ (prev = <<>> \/ trail_whitespace_re(prev) # 0 \/ prevBlank)
               /\ (next = <<>> \/ lead_whitespace_re(next) # 0 \/ nextBlank)
            THEN
              LET t1 == IF prev = <<>> THEN tokens
                        ELSE IF prevBlank
                        THEN [tokens EXCEPT ![i - 1] = StrChunk(<<>>)]
                        ELSE [tokens EXCEPT ![i - 1] =
                                 StrChunk(Slice(prev, 0, trail_whitespace_re(prev)))]
              IN  IF next = <<>> THEN t1
                  ELSE IF nextBlank
                  THEN [t1 EXCEPT ![i + 1] = StrChunk(<<>>)]
                  ELSE [t1 EXCEPT ![i + 1] =
                           StrChunk(Slice(next, lead_whitespace_re(next), Len(next)))]
            ELSE tokens

RECURSIVE trim_loop(_, _)
\* trim_lex's loop from token i on
trim_loop(tokens, i) ==
    IF i > Len(tokens) THEN tokens ELSE trim_loop(trim_step(tokens, i), i + 1)

\* trim_lex(tokens)
trim_lex(tokens) == trim_loop(tokens, 1)

RECURSIVE lex_scan(_, _, _, _, _, _, _, _)
\* the loop of lex over token_re.finditer(s), one match at a time, looking
\* for the next from the (1-based) index from on:
\* either raises, or returns the loop's variables at its end
lex_scan(s, from, in_expr, chunks, last, last_pos, name, line_offset) ==
    LET \* the match at i: {{ when open, at the position pos, after the text part
        Match(i, open, pos, part) ==
            IF open /\ in_expr
            THEN TemplateError("{{ inside expression", pos, name)
            ELSE IF ~open /\ ~in_expr
            THEN TemplateError("}} outside expression", pos, name)
            ELSE IF open
            THEN lex_scan(s, i + 2, TRUE,
                          IF part # <<>> THEN Append(chunks, StrChunk(part)) ELSE chunks,
                          i + 1, pos, name, line_offset)
            ELSE lex_scan(s, i + 2, FALSE,
                          Append(chunks, TupleChunk(Strip(part), last_pos)),
                          i + 1, pos, name, line_offset)
        Found(i) ==
            IF i = 0
            THEN Return([in_expr |-> in_expr, chunks |-> chunks,
                         last |-> last, last_pos |-> last_pos])
            ELSE Match(i, s[i] = "{", find_position(s, i + 1, line_offset),
                       Slice(s, last, i - 1))
    IN  Found(NextToken(s, from))

\* lex without its check at the end of the input (a plausible slip: the
\* "No }} to finish last expression" test left out)
lex_no_end_check(s, name, trim_whitespace, line_offset) ==
    LET Trimmed(chunks) == Return(IF trim_whitespace THEN trim_lex(chunks) ELSE chunks)
        Rest(chunks, part) ==
            Trimmed(IF part # <<>> THEN Append(chunks, StrChunk(part)) ELSE chunks)
        End(r) ==
            IF r.raised THEN r
            ELSE Rest(r.value.chunks, Slice(s, r.value.last, Len(s)))
    IN  End(lex_scan(s, 1, FALSE, <<>>, 0, <<1, 1>>, name, line_offset))

\* lex(s, name, trim_whitespace, line_offset)
lex(s, name, trim_whitespace, line_offset) ==
    LET Trimmed(chunks) == Return(IF trim_whitespace THEN trim_lex(chunks) ELSE chunks)
        Rest(chunks, part) ==
            Trimmed(IF part # <<>> THEN Append(chunks, StrChunk(part)) ELSE chunks)
        End(r) ==
            IF r.raised THEN r
            ELSE IF r.value.in_expr
            THEN TemplateError("No }} to finish last expression", r.value.last_pos, name)
            ELSE Rest(r.value.chunks, Slice(s, r.value.last, Len(s)))
    IN  End(lex_scan(s, 1, FALSE, <<>>, 0, <<1, 1>>, name, line_offset))

-----------------------------------------------------------------------------
(* Parsing.  A parse function returns (node, rest of the tokens) or        *)
(* raises; an AST node is the tuple the source builds, as a record.        *)

\* a string of the text, as an item of the AST
StrNode(text) == [name |-> "str", text |-> text]

\* (node, tokens) returned by a parse function
Parsed(node, tokens) == Return([node |-> node, tokens |-> tokens])

\* x in s, for a character x
Contains(s, x) == \E k \in 1..Len(s) : s[k] = x

RECURSIVE Replace(_, _, _)
\* s.replace(old, new), for a non-empty old
Replace(s, old, new) ==
    IF s = <<>> THEN <<>>
    ELSE IF StartsWith(s, old) THEN new \o Replace(Slice(s, Len(old), Len(s)), old, new)
    ELSE <<Head(s)>> \o Replace(Tail(s), old, new)

\* s.split(sep) for a character sep: the pieces of s between the seps
Split(s, sep) ==
    LET Pieces(B, m) ==
            [j \in 1..(m + 1) |->
                SubSeq(s, (IF j = 1 THEN 1 ELSE Nth(B, j - 1) + 1),
                          (IF j = m + 1 THEN Len(s) ELSE Nth(B, j) - 1))]
        Seps(B) == Pieces(B, Cardinality(B))
    IN  Seps({k \in 1..Len(s) : s[k] = sep})

\* s.split(sep, 1): s cut at its first sep, <<s>> when it has none
Split1(s, sep) ==
    IF ~Contains(s, sep) THEN <<s>>
    ELSE LET k == CHOOSE k \in 1..Len(s) :
                      s[k] = sep /\ \A j \in 1..(k - 1) : s[j] # sep
         IN  <<Slice(s, 0, k - 1), Slice(s, k, Len(s))>>

RECURSIVE WordEnd(_, _)
\* the index after the run of non-whitespace of s that starts at (1-based) q
WordEnd(s, q) ==
    IF q <= Len(s) /\ s[q] \notin Whitespace THEN WordEnd(s, q + 1) ELSE q

RECURSIVE SpaceEnd(_, _)
\* the index after the run of whitespace of s that starts at (1-based) q
SpaceEnd(s, q) ==
    IF q <= Len(s) /\ s[q] \in Whitespace THEN SpaceEnd(s, q + 1) ELSE q

\* s.split(None, 1)[1] for an s that starts with a word followed by
\* whitespace and more: what follows the first word and its whitespace
AfterFirstWord(s) == Slice(s, SpaceEnd(s, WordEnd(s, 1)) - 1, Len(s))

\* in_re, \s+in\s+, matches s starting at (1-based) p
InAt(s, p) ==
    /\ s[p] \in Whitespace
    /\ LET q == SpaceEnd(s, p)
       IN  /\ q + 2 <= Len(s)
           /\ s[q] = "i" /\ s[q + 1] = "n"
           /\ s[q + 2] \in Whitespace

\* in_re.search(s): (start, end) of the leftmost match, 0-based as in
\* Python, or <<>> when there is none
in_re(s) ==
    LET ps == {p \in 1..Len(s) : InAt(s, p)}
    IN  IF ps = {} THEN <<>>
        ELSE LET p == CHOOSE p \in ps : \A r \in ps : p <= r
             IN  <<p - 1, SpaceEnd(s, SpaceEnd(s, p) + 2) - 1>>

Letters ==
    {"a", "b", "c", "d", "e", "f", "g", "h", "i", "j", "k", "l", "m",
     "n", "o", "p", "q", "r", "s", "t", "u", "v", "w", "x", "y", "z",
     "A", "B", "C", "D", "E", "F", "G", "H", "I", "J", "K", "L", "M",
     "N", "O", "P", "Q", "R", "S", "T", "U", "V", "W", "X", "Y", "Z"}

Digits == {"0", "1", "2", "3", "4", "5", "6", "7", "8", "9"}

\* var_re, ^[a-z_][a-z0-9_]*$ ignoring case, matches s; $ is the end of s
\* or the place before a last \n
var_re(s) ==
    LET t == IF s # <<>> /\ s[Len(s)] = "\n" THEN Slice(s, 0, Len(s) - 1) ELSE s
        ok(u) == /\ u # <<>>
                 /\ u[1] \in Letters \cup {"_"}
                 /\ \A k \in 2..Len(u) : u[k] \in Letters \cup Digits \cup {"_"}
    IN  ok(s) \/ ok(t)

\* the keywords of the directives, as parse_expr tests them
kw ==
    [ py       |-> <<"p", "y", ":">>,
      continue |-> <<"c", "o", "n", "t", "i", "n", "u", "e">>,
      break    |-> <<"b", "r", "e", "a", "k">>,
      if       |-> <<"i", "f">>,
      elif     |-> <<"e", "l", "i", "f">>,
      else     |-> <<"e", "l", "s", "e">>,
      for      |-> <<"f", "o", "r">>,
      endif    |-> <<"e", "n", "d", "i", "f">>,
      endfor   |-> <<"e", "n", "d", "f", "o", "r">>,
      enddef   |-> <<"e", "n", "d", "d", "e", "f">>,
      default  |-> <<"d", "e", "f", "a", "u", "l", "t">>,
      inherit  |-> <<"i", "n", "h", "e", "r", "i", "t">> ]

\* the name of a keyword as a string of the model
KwName(w) ==
    CASE w = kw.continue -> "continue"
      [] w = kw.break -> "break"
      [] w = kw.if -> "if"
      [] w = kw.elif -> "elif"
      [] w = kw.else -> "else"
      [] w = kw.for -> "for"
      [] w = kw.endif -> "endif"
      [] w = kw.endfor -> "endfor"
      [] w = kw.enddef -> "enddef"

\* 'for' in context
InFor(context) == \E k \in 1..Len(context) : context[k] = "for"

\* parse_default(tokens, name, context)
parse_default(tokens, name, context) ==
    LET pos == tokens[1].pos
        first == AfterFirstWord(tokens[1].text)
        parts == Split1(first, "=")
    IN  IF Len(parts) = 1
        THEN TemplateError("Expression must be {{default var=value}}; no = found in %r",
                           pos, name)
        ELSE
        LET var == Strip(parts[1])
        IN  IF Contains(var, ",")
            THEN TemplateError("{{default x, y = ...}} is not supported", pos, name)
            ELSE IF ~var_re(var)
            THEN TemplateError("Not a valid variable name for {{default}}: %r", pos, name)
            ELSE Parsed([name |-> "default", pos |-> pos, var |-> var,
                         expr |-> Strip(parts[2])], Tail(tokens))

\* parse_inherit(tokens, name, context)
parse_inherit(tokens, name, context) ==
    Parsed([name |-> "inherit", pos |-> tokens[1].pos,
            expr |-> AfterFirstWord(tokens[1].text)], Tail(tokens))

\* the loop variables of a for: the stripped, non-empty pieces of the
\* variable section between commas
LoopVars(pieces) ==
    SelectSeq([k \in 1..Len(pieces) |-> Strip(pieces[k])], LAMBDA v : v # <<>>)

\* the part of parse_expr that reads a py: directive
parse_py(tokens, name) ==
    LET pos == tokens[1].pos
        e0 == LStrip(Slice(Strip(tokens[1].text), 3, Len(Strip(tokens[1].text))),
                     {" ", "\t"})
    IN  IF StartsWith(e0, <<"\n">>) \/ StartsWith(e0, <<"\r">>)
        THEN LET e1 == LStrip(e0, {"\r", "\n"})
                 e2 == IF Contains(e1, "\r")
                       THEN Replace(Replace(e1, <<"\r", "\n">>, <<"\n">>), <<"\r">>, <<>>)
                       ELSE e1
             IN  Parsed([name |-> "py", pos |-> pos, code |-> Append(e2, "\n")],
                        Tail(tokens))
        ELSE IF Contains(e0, "\n")
        THEN TemplateError("Multi-line py blocks must start with a newline", pos, name)
        ELSE Parsed([name |-> "py", pos |-> pos, code |-> e0], Tail(tokens))

RECURSIVE parse_expr(_, _, _)
RECURSIVE parse_cond_loop(_, _, _, _, _)
RECURSIVE parse_one_cond_loop(_, _, _, _, _)
RECURSIVE parse_for_loop(_, _, _, _, _)

\* the loop of parse_one_cond: the content of one branch, up to the next
\* endif, elif or else
parse_one_cond_loop(tokens, name, context, part, body) ==
    IF tokens = <<>>
    THEN TemplateError("No {{endif}}", part.pos, name)
    ELSE IF /\ ~IsStr(tokens[1])
            /\ \/ tokens[1].text = kw.endif
               \/ StartsWith(tokens[1].text, kw.elif \o <<" ">>)
               \/ tokens[1].text = kw.else
    THEN Parsed([part EXCEPT !.content = body], tokens)
    ELSE LET r == parse_expr(tokens, name, context)
         IN  IF r.raised THEN r
             ELSE parse_one_cond_loop(r.value.tokens, name, context, part,
                                      Append(body, r.value.node))

\* parse_one_cond(tokens, name, context)
parse_one_cond(tokens, name, context) ==
    LET pos == tokens[1].pos
        f0 == tokens[1].text
        first == IF EndsWith(f0, <<":">>) THEN Slice(f0, 0, Len(f0) - 1) ELSE f0
        rest == Tail(tokens)
    IN  IF StartsWith(first, kw.if \o <<" ">>)
        THEN parse_one_cond_loop(rest, name, context,
                 [name |-> "if", pos |-> pos,
                  expr |-> LStrip(Slice(first, 3, Len(first)), Whitespace),
                  content |-> <<>>], <<>>)
        ELSE IF StartsWith(first, kw.elif \o <<" ">>)
        THEN parse_one_cond_loop(rest, name, context,
                 [name |-> "elif", pos |-> pos,
                  expr |-> LStrip(Slice(first, 5, Len(first)), Whitespace),
                  content |-> <<>>], <<>>)
        ELSE IF first = kw.else
        THEN parse_one_cond_loop(rest, name, context,
                 [name |-> "else", pos |-> pos, expr |-> <<"None">>, content |-> <<>>], <<>>)
        ELSE [raised |-> TRUE, type |-> "AssertionError",
              message |-> "Unexpected token %r at %s", position |-> NoPosition,
              name |-> None]

\* the loop of parse_cond: the branches of a cond, up to its endif
parse_cond_loop(tokens, name, context, start, pieces) ==
    IF tokens = <<>>
    THEN TemplateError("Missing {{endif}}", start, name)
    ELSE IF ~IsStr(tokens[1]) /\ tokens[1].text = kw.endif
    THEN Parsed([name |-> "cond", pos |-> start, parts |-> pieces], Tail(tokens))
    ELSE LET r == parse_one_cond(tokens, name, context)
         IN  IF r.raised THEN r
             ELSE parse_cond_loop(r.value.tokens, name, context, start,
                                  Append(pieces, r.value.node))

\* parse_cond(tokens, name, context)
parse_cond(tokens, name, context) ==
    parse_cond_loop(tokens, name, context \o <<"if">>, tokens[1].pos, <<>>)

\* the loop of parse_for: the content of a for, up to its endfor
parse_for_loop(tokens, name, context, node, body) ==
    IF tokens = <<>>
    THEN TemplateError("No {{endfor}}", node.pos, name)
    ELSE IF ~IsStr(tokens[1]) /\ tokens[1].text = kw.endfor
    THEN Parsed([node EXCEPT !.content = body], Tail(tokens))
    ELSE LET r == parse_expr(tokens, name, context)
         IN  IF r.raised THEN r
             ELSE parse_for_loop(r.value.tokens, name, context, node,
                                 Append(body, r.value.node))

\* parse_for(tokens, name, context)
parse_for(tokens, name, context) ==
    LET pos == tokens[1].pos
        f0 == tokens[1].text
        f1 == IF EndsWith(f0, <<":">>) THEN Slice(f0, 0, Len(f0) - 1) ELSE f0
        first == Strip(Slice(f1, 3, Len(f1)))
        match == in_re(first)
    IN  IF match = <<>>
        THEN TemplateError("Bad for (no \"in\") in %r", pos, name)
        ELSE IF Contains(Slice(first, 0, match[1]), "(")
        THEN TemplateError(
                 "You cannot have () in the variable section of a for loop (%r)",
                 pos, name)
        ELSE parse_for_loop(Tail(tokens), name, <<"for">> \o context,
                 [name |-> "for", pos |-> pos,
                  vars |-> LoopVars(Split(Slice(first, 0, match[1]), ",")),
                  expr |-> Slice(first, match[2], Len(first)),
                  content |-> <<>>], <<>>)

\* parse_signal looking only at the innermost block (a plausible slip:
\* context[-1] == 'for' instead of 'for' in context)
parse_signal_innermost(tokens, name, context) ==
    IF context = <<>> \/ context[Len(context)] # "for"
    THEN TemplateError("continue outside of for loop", tokens[1].pos, name)
    ELSE Parsed([name |-> KwName(Strip(tokens[1].text)), pos |-> tokens[1].pos],
                Tail(tokens))

\* the part of parse_expr that reads a continue or a break
parse_signal(tokens, name, context) ==
    IF ~InFor(context)
    THEN TemplateError("continue outside of for loop", tokens[1].pos, name)
    ELSE Parsed([name |-> KwName(Strip(tokens[1].text)), pos |-> tokens[1].pos],
                Tail(tokens))

\* parse_expr(tokens, name, context)
parse_expr(tokens, name, context) ==
    IF IsStr(tokens[1]) THEN Parsed(StrNode(tokens[1].text), Tail(tokens))
    ELSE
    LET pos == tokens[1].pos
        expr == Strip(tokens[1].text)
    IN  IF StartsWith(expr, kw.py) THEN parse_py(tokens, name)
        ELSE IF expr \in {kw.continue, kw.break}
        THEN parse_signal(tokens, name, context)
        ELSE IF StartsWith(expr, kw.if \o <<" ">>)
        THEN parse_cond(tokens, name, context)
        ELSE IF StartsWith(expr, kw.elif \o <<" ">>)
        THEN TemplateError("elif outside of an if block", pos, name)
        ELSE IF expr = kw.else
        THEN TemplateError("else outside of an if block", pos, name)
        ELSE IF expr \in {kw.if, kw.elif, kw.for}
        THEN TemplateError(KwName(expr) \o " with no expression", pos, name)
        ELSE IF expr \in {kw.endif, kw.endfor, kw.enddef}
        THEN TemplateError("Unexpected " \o KwName(expr), pos, name)
        ELSE IF StartsWith(expr, kw.for \o <<" ">>)
        THEN parse_for(tokens, name, context)
        ELSE IF StartsWith(expr, kw.default \o <<" ">>)
        THEN parse_default(tokens, name, context)
        ELSE IF StartsWith(expr, kw.inherit \o <<" ">>)
        THEN parse_inherit(tokens, name, context)
        ELSE IF StartsWith(expr, <<"#">>)
        THEN Parsed([name |-> "comment", pos |-> pos, text |-> tokens[1].text],
                    Tail(tokens))
        ELSE Parsed([name |-> "expr", pos |-> pos, text |-> tokens[1].text],
                    Tail(tokens))

RECURSIVE parse_loop(_, _, _)
\* the loop of parse: one parse_expr after the other until no token is left
parse_loop(tokens, name, nodes) ==
    IF tokens = <<>> THEN Return(nodes)
    ELSE LET r == parse_expr(tokens, name, <<>>)
         IN  IF r.raised THEN r
             ELSE parse_loop(r.value.tokens, name, Append(nodes, r.value.node))

\* parse(s, name, line_offset)
parse(s, name, line_offset) ==
    LET tokens == lex(s, name, TRUE, line_offset)
    IN  IF tokens.raised THEN tokens ELSE parse_loop(tokens.value, name, <<>>)

-----------------------------------------------------------------------------
(* Values, and the evaluator the interpreter hands its expressions and     *)
(* py blocks to: Python's eval and exec, for the expressions and           *)
(* statements the templates of the model are written with (names,          *)
(* attribute access, integer and string literals; assignments).            *)

\* the values that hold something: each type has a field of its own, so
\* that values of different types are never compared field by field
IntV(n) == [t |-> "int", n |-> n]
StrV(s) == [t |-> "str", s |-> s]
ListV(items) == [t |-> "list", items |-> items]
TupleV(items) == [t |-> "tuple", items |-> items]
\* a dictionary, where a value may stand
DictV(d) == [t |-> "dict", d |-> d]
\* a built-in function or a class, by its name
FuncV(f) == [t |-> "func", f |-> f]
\* a TemplateObject: its name and its attributes (a function from the
\* attribute names that were set to their values)
TemplateObject(name, attrs) ==
    [t |-> "TemplateObject", o |-> [name |-> name, attrs |-> attrs]]
\* the TemplateObjectGetter around the TemplateObject with these attributes
TemplateObjectGetter(name, attrs) ==
    [t |-> "TemplateObjectGetter", o |-> [name |-> name, attrs |-> attrs]]
\* the one instance of _Empty
Empty == Value("Empty", <<>>)

\* an exception of the given type in flight; position and name are what
\* _add_line_info or TemplateError attached (NoPosition and None when
\* nothing was attached)
Raise(type, message, position, name) ==
    [raised |-> TRUE, type |-> type, message |-> message,
     position |-> position, name |-> name]

\* bool(v)
Truthy(v) ==
    CASE v.t = "None" -> FALSE
      [] v.t = "int" -> v.n # 0
      [] v.t = "str" -> v.s # <<>>
      [] v.t \in {"list", "tuple"} -> v.items # <<>>
      [] v.t = "Empty" -> FALSE
      [] OTHER -> TRUE

DigitOf(d) ==
    CASE d = 0 -> "0" [] d = 1 -> "1" [] d = 2 -> "2" [] d = 3 -> "3"
      [] d = 4 -> "4" [] d = 5 -> "5" [] d = 6 -> "6" [] d = 7 -> "7"
      [] d = 8 -> "8" [] d = 9 -> "9"

ValueOfDigit(c) == CHOOSE d \in 0..9 : DigitOf(d) = c

RECURSIVE IntText(_)
\* str(n) for an integer n >= 0
IntText(n) == IF n < 10 THEN <<DigitOf(n)>> ELSE Append(IntText(n \div 10), DigitOf(n % 10))

RECURSIVE IntOfText(_)
\* int(s) for a text of digits
IntOfText(s) ==
    IF s = <<>> THEN 0
    ELSE 10 * IntOfText(SubSeq(s, 1, Len(s) - 1)) + ValueOfDigit(s[Len(s)])

RECURSIVE Repr(_)
RECURSIVE ReprItems(_)
\* ', '.join(repr(x) for x in items)
ReprItems(items) ==
    IF items = <<>> THEN <<>>
    ELSE IF Len(items) = 1 THEN Repr(items[1])
    ELSE Repr(items[1]) \o <<",", " ">> \o ReprItems(Tail(items))

\* repr(v)
Repr(v) ==
    CASE v.t = "None" -> <<"N", "o", "n", "e">>
      [] v.t = "int" -> IntText(v.n)
      [] v.t = "str" -> <<"'">> \o v.s \o <<"'">>
      [] v.t = "list" -> <<"[">> \o ReprItems(v.items) \o <<"]">>
      [] v.t = "tuple" ->
            IF Len(v.items) = 1 THEN <<"(">> \o Repr(v.items[1]) \o <<",", ")">>
            ELSE <<"(">> \o ReprItems(v.items) \o <<")">>
      [] v.t = "func" -> <<"<", "f", "u", "n", "c", "t", "i", "o", "n", " ">> \o v.f \o <<">">>
      [] v.t = "TemplateObject" ->
            <<"<", "T", "e", "m", "p", "l", "a", "t", "e", "O", "b", "j", "e", "c", "t", " ">>
            \o (IF v.o.name.t = "str" THEN v.o.name.s ELSE <<"N", "o", "n", "e">>) \o <<">">>
      [] v.t = "TemplateObjectGetter" ->
            <<"<", "T", "e", "m", "p", "l", "a", "t", "e", "O", "b", "j", "e", "c", "t",
              "G", "e", "t", "t", "e", "r", ">">>
      [] v.t = "Empty" -> <<"E", "m", "p", "t", "y">>
      [] OTHER -> <<"<", "l", "o", "o", "p", "e", "r", ">">>

\* str(v)
StrOf(v) ==
    CASE v.t = "str" -> v.s
      [] v.t = "Empty" -> <<>>
      [] OTHER -> Repr(v)

\* ToStringOf(v)
ToStringOf(v) ==
    IF v.t = "None" THEN <<>>
    ELSE IF v.t # "str" THEN StrOf(v)
    ELSE v.s

\* the text is a Python identifier
IsIdentifier(s) ==
    /\ s # <<>>
    /\ s[1] \in Letters \cup {"_"}
    /\ \A k \in 2..Len(s) : s[k] \in Letters \cup Digits \cup {"_"}

\* the words of Python that are no names (those the model's texts can hold)
Keywords ==
    { <<"i", "f">>, <<"e", "l", "i", "f">>, <<"e", "l", "s", "e">>,
      <<"f", "o", "r">>, <<"i", "n">>, <<"b", "r", "e", "a", "k">>,
      <<"c", "o", "n", "t", "i", "n", "u", "e">>, <<"d", "e", "f">> }

\* Template.default_namespace, the globals of every eval and exec
default_namespace ==
    ( <<"s", "t", "a", "r", "t", "_", "b", "r", "a", "c", "e", "s">> :> StrV(<<"{", "{">>) )
    @@ ( <<"e", "n", "d", "_", "b", "r", "a", "c", "e", "s">> :> StrV(<<"}", "}">>) )
    @@ ( <<"l", "o", "o", "p", "e", "r">> :> FuncV(<<"l", "o", "o", "p", "e", "r">>) )

\* the built-in names the model's expressions use
Builtins ==
    ( <<"l", "e", "n">> :> FuncV(<<"l", "e", "n">>) )
    @@ ( <<"s", "t", "r">> :> FuncV(<<"s", "t", "r">>) )
    @@ ( <<"N", "o", "n", "e">> :> None )

\* getattr(v, attr)
GetAttr(v, attr) ==
    IF v.t = "TemplateObject"
    THEN IF attr \in DOMAIN v.o.attrs THEN Return(v.o.attrs[attr])
         ELSE IF attr = <<"g", "e", "t">>
         THEN Return(TemplateObjectGetter(v.o.name, v.o.attrs))
         ELSE Raise("AttributeError", "object has no attribute %r", NoPosition, None)
    ELSE IF v.t = "TemplateObjectGetter"
    THEN IF attr \in DOMAIN v.o.attrs THEN Return(v.o.attrs[attr])
         ELSE IF attr = <<"g", "e", "t">>
         THEN Return(TemplateObjectGetter(v.o.name, v.o.attrs))
         ELSE Return(Empty)
    ELSE Raise("AttributeError", "object has no attribute %r", NoPosition, None)

RECURSIVE GetAttrs(_, _)
\* v.a.b...: one getattr after the other
GetAttrs(v, attrs) ==
    IF attrs = <<>> THEN Return(v)
    ELSE LET r == GetAttr(v, Head(attrs))
         IN  IF r.raised THEN r ELSE GetAttrs(r.value, Tail(attrs))

\* the text is 'inner' or "inner"
IsQuoted(e) ==
    /\ Len(e) >= 2
    /\ e[1] \in {"'", "\""}
    /\ e[Len(e)] = e[1]
    /\ \A k \in 2..(Len(e) - 1) : e[k] # e[1] /\ e[k] # "\\" /\ e[k] # "\n"

\* eval(code, globals, locals)
Eval(code, globals, locals) ==
    LET e == Strip(code)
    IN  IF e = <<>> THEN Raise("SyntaxError", "invalid syntax", NoPosition, None)
        ELSE IF \A k \in 1..Len(e) : e[k] \in Digits THEN Return(IntV(IntOfText(e)))
        ELSE IF IsQuoted(e) THEN Return(StrV(Slice(e, 1, Len(e) - 1)))
        ELSE
        LET names == Split(e, ".")
        IN  IF \E k \in 1..Len(names) : ~IsIdentifier(names[k]) \/ names[k] \in Keywords
            THEN Raise("SyntaxError", "invalid syntax", NoPosition, None)
            ELSE IF names[1] \in DOMAIN locals
            THEN GetAttrs(locals[names[1]], Tail(names))
            ELSE IF names[1] \in DOMAIN globals
            THEN GetAttrs(globals[names[1]], Tail(names))
            ELSE IF names[1] \in DOMAIN Builtins
            THEN GetAttrs(Builtins[names[1]], Tail(names))
            ELSE Raise("NameError", "name %r is not defined", NoPosition, None)

\* the statement is an assignment name = expression
IsAssignment(line) ==
    /\ Contains(line, "=")
    /\ IsIdentifier(RStrip(Split1(line, "=")[1], {" ", "\t"}))
    /\ RStrip(Split1(line, "=")[1], {" ", "\t"}) \notin Keywords
    /\ ~StartsWith(Split1(line, "=")[2], <<"=">>)

RECURSIVE ExecLines(_, _, _)
\* the statements of a block run one after the other: the locals as the
\* block left them, and the exception that ended it, if one did
ExecLines(lines, globals, locals) ==
    IF lines = <<>> THEN [raised |-> FALSE, locals |-> locals]
    ELSE IF Strip(Head(lines)) = <<>> THEN ExecLines(Tail(lines), globals, locals)
    ELSE LET cut == Split1(Head(lines), "=")
             Assign(r) ==
                 IF r.raised THEN r @@ [locals |-> locals]
                 ELSE ExecLines(Tail(lines), globals,
                                ((RStrip(cut[1], {" ", "\t"}) :> r.value) @@ locals))
         IN  Assign(Eval(cut[2], globals, locals))

\* exec code in globals, locals
Exec(code, globals, locals) ==
    LET lines == SplitLines(code)
    IN  IF \E k \in 1..Len(lines) :
               Strip(lines[k]) # <<>> /\ ~IsAssignment(lines[k])
        THEN Raise("SyntaxError", "invalid syntax", NoPosition, None) @@ [locals |-> locals]
        ELSE ExecLines(lines, globals, locals)

\* iter(v): the items a for loop gets from v, or the TypeError
Iterate(v) ==
    CASE v.t \in {"list", "tuple"} -> Return(v.items)
      [] v.t = "str" -> Return([k \in 1..Len(v.s) |-> StrV(<<v.s[k]>>)])
      [] v.t = "Empty" -> Return(<<>>)
      [] OTHER -> Raise("TypeError", "object is not iterable", NoPosition, None)

\* len(v)
LenOf(v) ==
    IF v.t \in {"list", "tuple"} THEN Return(IntV(Len(v.items)))
    ELSE IF v.t = "str" THEN Return(IntV(Len(v.s)))
    ELSE Raise("TypeError", "object has no len()", NoPosition, None)

\* func(arg); looper is a class of the module _looper, which is no part of
\* the sources: a call of it returns an object the model does not look into
Call(func, arg) ==
    IF func.t = "Empty" THEN Return(Empty)
    ELSE IF func.t # "func"
    THEN Raise("TypeError", "object is not callable", NoPosition, None)
    ELSE IF func.f = <<"l", "e", "n">> THEN LenOf(arg)
    ELSE IF func.f = <<"s", "t", "r">> THEN Return(StrV(StrOf(arg)))
    ELSE Return([t |-> "looper", seq |-> arg])

-----------------------------------------------------------------------------
(* The Template class: construction and the interpreter, one action per    *)
(* step of substitute.  An activation of a method is a frame of stack; an  *)
(* exception in flight is exc, and unwinds the frames one by one.          *)

\* no exception in flight
NoExc == [raised |-> FALSE]

\* the empty dictionary
EmptyDict == <<>>

\* d with d[key] = value
SetItem(d, key, value) == (key :> value) @@ d

\* d.update(other)
Update(d, other) == other @@ d

\* the identity of the mapping the caller hands to substitute
CallerMap == 1

TemplateNameKey ==
    <<"_", "_", "t", "e", "m", "p", "l", "a", "t", "e", "_", "n", "a", "m", "e", "_", "_">>
InheritKey == <<"_", "_", "i", "n", "h", "e", "r", "i", "t", "_", "_">>
SelfKey == <<"s", "e", "l", "f">>
BodyKey == <<"b", "o", "d", "y">>

\* no Template is built and no call is made (SpecLex and SpecParse)
NoCall ==
    /\ args = <<>>
    /\ files = <<>>
    /\ tmpl = <<>>
    /\ dicts = <<>>
    /\ stack = <<>>
    /\ out = <<>>
    /\ defs = EmptyDict
    /\ exc = NoExc
    /\ result = NotCalled
    /\ calls = 0
    /\ evaluated = <<>>

\* Template.__init__ with content parsed: the object built
Template(parsedContent, name, namespace, get_template, default_inherit) ==
    [name |-> name, parsed |-> parsedContent,
     namespace |-> IF namespace = None THEN EmptyDict ELSE namespace.d,
     get_template |-> get_template, default_inherit |-> default_inherit]

\* frames
SubstituteFrame(self, ns) == [kind |-> "substitute", self |-> self, ns |-> ns]
CodesFrame(codes) == [kind |-> "codes", codes |-> codes, i |-> 1]
ForFrame(loopvars, items, body) ==
    [kind |-> "for", vars |-> loopvars, items |-> items, k |-> 0, content |-> body]
IfFrame == [kind |-> "if"]

Top == stack[Len(stack)]
Pop(st) == SubSeq(st, 1, Len(st) - 1)

\* the activation of substitute the running code belongs to: the innermost
CurrentSubstitute ==
    stack[CHOOSE k \in 1..Len(stack) :
              /\ stack[k].kind = "substitute"
              /\ \A j \in (k + 1)..Len(stack) : stack[j].kind # "substitute"]
Self == CurrentSubstitute.self
Ns == CurrentSubstitute.ns

\* the running code is about to interpret an item: no exception is in
\* flight and _interpret_codes has an item left
AtItem ==
    /\ pc = "running"
    /\ exc = NoExc
    /\ stack # <<>>
    /\ Top.kind = "codes"
    /\ Top.i <= Len(Top.codes)
Item == Top.codes[Top.i]

\* the stack once _interpret_codes has taken its next item
Advanced == [stack EXCEPT ![Len(stack)].i = @ + 1]

\* an evaluator call, as evaluated records it
EvalCall(op, code, pos) == [op |-> op, code |-> code, pos |-> pos]

\* _add_line_info(msg, pos), on the exception e: the message gets the line
\* and the column, and the template's name when it has one
_add_line_info(self, e, pos) ==
    [e EXCEPT !.position = pos,
              !.name = IF Truthy(self.name) THEN self.name ELSE None]

\* Template._eval(code, ns, pos)
_eval(self, code, ns, pos) ==
    LET Wrapped(r) ==
            IF ~r.raised THEN r
            ELSE IF r.type = "SyntaxError"
            THEN _add_line_info(self,
                     Raise("SyntaxError", "invalid syntax in expression: %s", NoPosition, None),
                     pos)
            ELSE _add_line_info(self, r, pos)
    IN  Wrapped(Eval(code, default_namespace, ns))

\* Template._exec(code, ns, pos): the locals as the block left them, and the
\* exception it raised, if any
_exec(self, code, ns, pos) ==
    LET Wrapped(r) ==
            IF ~r.raised THEN r
            ELSE [_add_line_info(self, Raise(r.type, r.message, NoPosition, None), pos)
                  EXCEPT !.raised = TRUE] @@ [locals |-> r.locals]
    IN  Wrapped(Exec(code, default_namespace, ns))

\* Template.__init__: the content is parsed, and the object is built when
\* the parse raises nothing
Construct ==
    /\ pc = "start"
    /\ parsed' = parse(content, args.name, 0)
    /\ IF parsed'.raised
       THEN /\ pc' = "failed"
            /\ tmpl' = tmpl
       ELSE /\ pc' = "ready"
            /\ tmpl' = Template(parsed'.value, args.name, args.namespace,
                                args.get_template, args.default_inherit)
    /\ UNCHANGED <<content, trim, lexed, args, files, dicts, stack, out, defs, exc,
                   result, calls, evaluated>>

\* the lines of substitute from its start to the call of _interpret_codes,
\* for the template self and the dictionary ns: the dictionaries and the
\* frames pushed
EnterSubstitute(self, ns, ds) ==
    LET d1 == SetItem(ds[ns], TemplateNameKey, self.name)
        d2 == IF self.namespace # EmptyDict THEN Update(d1, self.namespace) ELSE d1
    IN  [dicts |-> [ds EXCEPT ![ns] = d2],
         frames |-> <<SubstituteFrame(self, ns), CodesFrame(self.parsed)>>]

\* the caller calls tmpl.substitute(mapping) or tmpl.substitute(**mapping):
\* with one positional argument ns is the caller's mapping itself, with
\* keywords it is the dictionary Python builds for the call
SubstituteCall(positional) ==
    /\ pc = "ready"
    /\ calls < MaxCalls
    /\ LET ds == IF positional THEN dicts ELSE Append(dicts, dicts[CallerMap])
           ns == IF positional THEN CallerMap ELSE Len(ds)
           e == EnterSubstitute(tmpl, ns, ds)
       IN  /\ dicts' = e.dicts
           /\ stack' = e.frames
    /\ out' = <<>>
    /\ defs' = EmptyDict
    /\ exc' = NoExc
    /\ result' = NotCalled
    /\ evaluated' = <<>>
    /\ calls' = calls + 1
    /\ pc' = "running"
    /\ UNCHANGED <<content, trim, lexed, parsed, args, files, tmpl>>

\* _interpret_codes: a string of the text is appended to the output
InterpretString ==
    /\ AtItem
    /\ Item.name = "str"
    /\ out' = Append(out, Item.text)
    /\ stack' = Advanced
    /\ UNCHANGED <<content, trim, lexed, parsed, pc, args, files, tmpl, dicts, defs,
                   exc, result, calls, evaluated>>

\* _interpret_code, name == 'py': the block is executed on ns
InterpretPy ==
    /\ AtItem
    /\ Item.name = "py"
    /\ \E r \in {_exec(Self, Item.code, dicts[Ns], Item.pos)} :
          /\ dicts' = [dicts EXCEPT ![Ns] = r.locals]
          /\ exc' = IF r.raised
                    THEN Raise(r.type, r.message, r.position, r.name)
                    ELSE NoExc
    /\ evaluated' = Append(evaluated, EvalCall("exec", Item.code, Item.pos))
    /\ stack' = Advanced
    /\ UNCHANGED <<content, trim, lexed, parsed, pc, args, files, tmpl, out, defs,
                   result, calls>>

\* _interpret_code, name == 'continue': raise _TemplateContinue()
InterpretContinue ==
    /\ AtItem
    /\ Item.name = "continue"
    /\ exc' = Raise("_TemplateContinue", "", NoPosition, None)
    /\ stack' = Advanced
    /\ UNCHANGED <<content, trim, lexed, parsed, pc, args, files, tmpl, dicts, out,
                   defs, result, calls, evaluated>>

\* _interpret_code, name == 'break': raise _TemplateBreak()
InterpretBreak ==
    /\ AtItem
    /\ Item.name = "break"
    /\ exc' = Raise("_TemplateBreak", "", NoPosition, None)
    /\ stack' = Advanced
    /\ UNCHANGED <<content, trim, lexed, parsed, pc, args, files, tmpl, dicts, out,
                   defs, result, calls, evaluated>>

\* _interpret_code, name == 'for': the expression is evaluated and
\* _interpret_for is called with its value
InterpretFor ==
    /\ AtItem
    /\ Item.name = "for"
    /\ \E r \in {_eval(Self, Item.expr, dicts[Ns], Item.pos)} :
          IF r.raised
          THEN /\ exc' = r
               /\ stack' = Advanced
          ELSE /\ exc' = NoExc
               /\ stack' = Append(Advanced, ForFrame(Item.vars, r.value, Item.content))
    /\ evaluated' = Append(evaluated, EvalCall("eval", Item.expr, Item.pos))
    /\ UNCHANGED <<content, trim, lexed, parsed, pc, args, files, tmpl, dicts, out,
                   defs, result, calls>>

\* _interpret_for is at the head of its loop: no exception is in flight
AtFor ==
    /\ pc = "running"
    /\ exc = NoExc
    /\ stack # <<>>
    /\ Top.kind = "for"

\* the binding of the loop variables to an item (lines 232-240): the
\* namespace with them bound, or the exception raised
BindLoopVars(loopvars, item, ns) ==
    IF Len(loopvars) = 1 THEN [raised |-> FALSE, ns |-> SetItem(ns, loopvars[1], item)]
    ELSE LET n == LenOf(item)
         IN  IF n.raised THEN n
             ELSE IF Len(loopvars) # n.value.n
             THEN Raise("ValueError", "Need %i items to unpack (got %i items)",
                        NoPosition, None)
             ELSE LET values == IF item.t = "str"
                                THEN [k \in 1..Len(item.s) |-> StrV(<<item.s[k]>>)]
                                ELSE item.items
                  IN  [raised |-> FALSE,
                       ns |-> [name \in {loopvars[k] : k \in 1..Len(loopvars)} |->
                                  values[CHOOSE k \in 1..Len(loopvars) :
                                             /\ loopvars[k] = name
                                             /\ \A j \in (k + 1)..Len(loopvars) : loopvars[j] # name]]
                              @@ ns]

\* a for statement whose try catches _TemplateContinue alone (a plausible
\* slip: the except _TemplateBreak clause left out)
ForCatchesContinueOnly == {"_TemplateContinue"}

\* except _TemplateContinue / except _TemplateBreak of _interpret_for: the
\* exceptions its try statement catches
ForCatches == {"_TemplateContinue", "_TemplateBreak"}

\* _interpret_for: the value is not iterable, and the for statement raises
ForNotIterable ==
    /\ AtFor
    /\ Iterate(Top.items).raised
    /\ exc' = Iterate(Top.items)
    /\ UNCHANGED <<content, trim, lexed, parsed, pc, args, files, tmpl, dicts, stack,
                   out, defs, result, calls, evaluated>>

\* _interpret_for: the next item is bound to the loop variables and the
\* body is interpreted
ForBind ==
    /\ AtFor
    /\ ~Iterate(Top.items).raised
    /\ Top.k < Len(Iterate(Top.items).value)
    /\ LET b == BindLoopVars(Top.vars, Iterate(Top.items).value[Top.k + 1], dicts[Ns])
       IN  /\ ~b.raised
           /\ dicts' = [dicts EXCEPT ![Ns] = b.ns]
    /\ stack' = Append([stack EXCEPT ![Len(stack)].k = @ + 1], CodesFrame(Top.content))
    /\ UNCHANGED <<content, trim, lexed, parsed, pc, args, files, tmpl, out, defs,
                   exc, result, calls, evaluated>>

\* _interpret_for: the next item does not unpack to the loop variables
ForBindRaises ==
    /\ AtFor
    /\ ~Iterate(Top.items).raised
    /\ Top.k < Len(Iterate(Top.items).value)
    /\ LET b == BindLoopVars(Top.vars, Iterate(Top.items).value[Top.k + 1], dicts[Ns])
       IN  /\ b.raised
           /\ exc' = b
    /\ stack' = [stack EXCEPT ![Len(stack)].k = @ + 1]
    /\ UNCHANGED <<content, trim, lexed, parsed, pc, args, files, tmpl, dicts, out,
                   defs, result, calls, evaluated>>

\* _interpret_for: no item is left, the method returns
ForExhausted ==
    /\ AtFor
    /\ ~Iterate(Top.items).raised
    /\ Top.k >= Len(Iterate(Top.items).value)
    /\ stack' = Pop(stack)
    /\ UNCHANGED <<content, trim, lexed, parsed, pc, args, files, tmpl, dicts, out,
                   defs, exc, result, calls, evaluated>>

\* _interpret_codes has no item left and returns to _interpret_for or
\* _interpret_if
CodesReturn ==
    /\ pc = "running"
    /\ exc = NoExc
    /\ Len(stack) >= 2
    /\ Top.kind = "codes"
    /\ Top.i > Len(Top.codes)
    /\ stack[Len(stack) - 1].kind # "substitute"
    /\ stack' = Pop(stack)
    /\ UNCHANGED <<content, trim, lexed, parsed, pc, args, files, tmpl, dicts, out,
                   defs, exc, result, calls, evaluated>>

\* _interpret_if: the body of the branch has run; break, and return
IfReturn ==
    /\ pc = "running"
    /\ exc = NoExc
    /\ stack # <<>>
    /\ Top.kind = "if"
    /\ stack' = Pop(stack)
    /\ UNCHANGED <<content, trim, lexed, parsed, pc, args, files, tmpl, dicts, out,
                   defs, exc, result, calls, evaluated>>

\* _interpret_if(parts, ns, out, defs) from its k-th part on: the branch
\* whose body is to run (0 when none is), the evaluator calls made, and the
\* exception a condition raised
RECURSIVE _interpret_if_fallthrough(_, _, _, _, _)
_interpret_if_fallthrough(self, parts, ns, k, log) ==
    IF k > Len(parts) THEN [raised |-> FALSE, chosen |-> 0, log |-> log]
    ELSE IF parts[k].name = "else"
    THEN LET Taken(rest) ==
                 IF rest.raised \/ rest.chosen # 0 THEN rest ELSE [rest EXCEPT !.chosen = k]
         IN  Taken(_interpret_if_fallthrough(self, parts, ns, k + 1, log))
    ELSE LET log2 == Append(log, EvalCall("eval", parts[k].expr, parts[k].pos))
             Taken(r, rest) ==
                 IF r.raised THEN r @@ [chosen |-> 0, log |-> log2]
                 ELSE IF rest.raised \/ rest.chosen # 0 \/ ~Truthy(r.value) THEN rest
                 ELSE [rest EXCEPT !.chosen = k]
         IN  Taken(_eval(self, parts[k].expr, ns, parts[k].pos),
                   _interpret_if_fallthrough(self, parts, ns, k + 1, log2))

RECURSIVE _interpret_if(_, _, _, _, _)
_interpret_if(self, parts, ns, k, log) ==
    IF k > Len(parts) THEN [raised |-> FALSE, chosen |-> 0, log |-> log]
    ELSE IF parts[k].name = "else"
    THEN [raised |-> FALSE, chosen |-> k, log |-> log]
    ELSE LET log2 == Append(log, EvalCall("eval", parts[k].expr, parts[k].pos))
             Tested(r) ==
                 IF r.raised THEN r @@ [chosen |-> 0, log |-> log2]
                 ELSE IF Truthy(r.value) THEN [raised |-> FALSE, chosen |-> k, log |-> log2]
                 ELSE _interpret_if(self, parts, ns, k + 1, log2)
         IN  Tested(_eval(self, parts[k].expr, ns, parts[k].pos))

\* _interpret_code, name == 'cond': _interpret_if evaluates the conditions
\* and calls _interpret_codes on the body of the branch it takes
InterpretCond ==
    /\ AtItem
    /\ Item.name = "cond"
    /\ \E r \in {_interpret_if(Self, Item.parts, dicts[Ns], 1, <<>>)} :
          /\ evaluated' = evaluated \o r.log
          /\ IF r.raised
             THEN /\ exc' = Raise(r.type, r.message, r.position, r.name)
                  /\ stack' = Append(Advanced, IfFrame)
             ELSE /\ exc' = NoExc
                  /\ stack' = IF r.chosen = 0 THEN Advanced
                              ELSE Advanced \o
                                   <<IfFrame, CodesFrame(Item.parts[r.chosen].content)>>
    /\ UNCHANGED <<content, trim, lexed, parsed, pc, args, files, tmpl, dicts, out,
                   defs, result, calls>>

\* the activation of _interpret_code for an expr item: the running value
\* base, the filters still to apply, and the item's position
ExprFrame(base, parts, pos) == [kind |-> "expr", base |-> base, parts |-> parts, pos |-> pos]

\* _interpret_code, name == 'expr': the text is split at | and its first
\* part is evaluated
InterpretExpr ==
    /\ AtItem
    /\ Item.name = "expr"
    /\ LET parts == Split(Item.text, "|")
       IN  /\ evaluated' = Append(evaluated, EvalCall("eval", parts[1], Item.pos))
           /\ \E r \in {_eval(Self, parts[1], dicts[Ns], Item.pos)} :
                 IF r.raised
                 THEN /\ exc' = r
                      /\ stack' = Advanced
                 ELSE /\ exc' = NoExc
                      /\ stack' = Append(Advanced, ExprFrame(r.value, Tail(parts), Item.pos))
    /\ UNCHANGED <<content, trim, lexed, parsed, pc, args, files, tmpl, dicts, out,
                   defs, result, calls>>

\* the loop over parts[1:] has a filter left
AtFilter ==
    /\ pc = "running"
    /\ exc = NoExc
    /\ stack # <<>>
    /\ Top.kind = "expr"
    /\ Top.parts # <<>>
Filter == Strip(Head(Top.parts))

\* (part[0] == "'" and part[-1] == "'") or (part[0] == '"' and part[-1] == '"')
IsQuotedFilter(part) ==
    \/ part[1] = "'" /\ part[Len(part)] = "'"
    \/ part[1] = "\"" /\ part[Len(part)] = "\""

\* the fallback taken for None alone (a plausible slip: base is None
\* instead of a blank string form)
FallbackWhenNone(base) == base = None

\* ToString(base).strip() == ''
FallbackApplies(base) == Strip(ToStringOf(base)) = <<>>

\* the stack once the loop over the filters has taken its next part, with
\* the running value base
Filtered(base) ==
    [stack EXCEPT ![Len(stack)].base = base, ![Len(stack)].parts = Tail(@)]

\* the filter is empty: part[0] raises IndexError
FilterEmpty ==
    /\ AtFilter
    /\ Filter = <<>>
    /\ exc' = Raise("IndexError", "string index out of range", NoPosition, None)
    /\ stack' = Filtered(Top.base)
    /\ UNCHANGED <<content, trim, lexed, parsed, pc, args, files, tmpl, dicts, out,
                   defs, result, calls, evaluated>>

\* the filter is quoted: its inside replaces a blank running value
FilterQuoted ==
    /\ AtFilter
    /\ Filter # <<>>
    /\ IsQuotedFilter(Filter)
    /\ stack' = Filtered(IF FallbackApplies(Top.base)
                         THEN StrV(Slice(Filter, 1, Len(Filter) - 1))
                         ELSE Top.base)
    /\ UNCHANGED <<content, trim, lexed, parsed, pc, args, files, tmpl, dicts, out,
                   defs, exc, result, calls, evaluated>>

\* the filter is an expression: it is evaluated and its value is called
\* with the running value
FilterCall ==
    /\ AtFilter
    /\ Filter # <<>>
    /\ ~IsQuotedFilter(Filter)
    /\ \E func \in {_eval(Self, Filter, dicts[Ns], Top.pos)} :
       \E r \in {IF func.raised THEN func ELSE Call(func.value, Top.base)} :
          IF r.raised
          THEN /\ exc' = r
               /\ stack' = Filtered(Top.base)
          ELSE /\ exc' = NoExc
               /\ stack' = Filtered(r.value)
    /\ evaluated' = Append(evaluated, EvalCall("eval", Filter, Top.pos))
    /\ UNCHANGED <<content, trim, lexed, parsed, pc, args, files, tmpl, dicts, out,
                   defs, result, calls>>

\* Template._repr(value, pos)
_repr(self, value, pos) == ToStringOf(value)

\* out.append(self._repr(base, pos))
ExprAppend ==
    /\ pc = "running"
    /\ exc = NoExc
    /\ stack # <<>>
    /\ Top.kind = "expr"
    /\ Top.parts = <<>>
    /\ out' = Append(out, _repr(Self, Top.base, Top.pos))
    /\ stack' = Pop(stack)
    /\ UNCHANGED <<content, trim, lexed, parsed, pc, args, files, tmpl, dicts, defs,
                   exc, result, calls, evaluated>>

\* the default taken for a false value too (a plausible slip:
\* not ns.get(var) instead of var not in ns)
DefaultAppliesWhenFalsy(var, ns) == var \notin DOMAIN ns \/ ~Truthy(ns[var])

\* if var not in ns
DefaultApplies(var, ns) == var \notin DOMAIN ns

\* _interpret_code, name == 'default'
InterpretDefault ==
    /\ AtItem
    /\ Item.name = "default"
    /\ IF DefaultApplies(Item.var, dicts[Ns])
       THEN /\ evaluated' = Append(evaluated, EvalCall("eval", Item.expr, Item.pos))
            /\ \E r \in {_eval(Self, Item.expr, dicts[Ns], Item.pos)} :
                  IF r.raised
                  THEN /\ exc' = r
                       /\ dicts' = dicts
                  ELSE /\ exc' = NoExc
                       /\ dicts' = [dicts EXCEPT ![Ns] = SetItem(@, Item.var, r.value)]
       ELSE UNCHANGED <<evaluated, exc, dicts>>
    /\ stack' = Advanced
    /\ UNCHANGED <<content, trim, lexed, parsed, pc, args, files, tmpl, out, defs,
                   result, calls>>

\* _interpret_code, name == 'inherit'
InterpretInherit ==
    /\ AtItem
    /\ Item.name = "inherit"
    /\ \E r \in {_eval(Self, Item.expr, dicts[Ns], Item.pos)} :
          IF r.raised
          THEN /\ exc' = r
               /\ defs' = defs
          ELSE /\ exc' = NoExc
               /\ defs' = SetItem(defs, InheritKey, r.value)
    /\ evaluated' = Append(evaluated, EvalCall("eval", Item.expr, Item.pos))
    /\ stack' = Advanced
    /\ UNCHANGED <<content, trim, lexed, parsed, pc, args, files, tmpl, dicts, out,
                   result, calls>>

\* _interpret_code, name == 'comment'
InterpretComment ==
    /\ AtItem
    /\ Item.name = "comment"
    /\ stack' = Advanced
    /\ UNCHANGED <<content, trim, lexed, parsed, pc, args, files, tmpl, dicts, out,
                   defs, exc, result, calls, evaluated>>

\* _interpret_codes(self._parsed, ...) has no item left: _interpret is
\* about to return to substitute
AtReturn ==
    /\ pc = "running"
    /\ exc = NoExc
    /\ Len(stack) >= 2
    /\ Top.kind = "codes"
    /\ Top.i > Len(Top.codes)
    /\ stack[Len(stack) - 1].kind = "substitute"

\* what _interpret returns: ''.join(parts), defs without __inherit__, and
\* the value popped from defs (None when there is none)
Interpreted ==
    [result |-> Join(out),
     defs |-> [k \in DOMAIN defs \ {InheritKey} |-> defs[k]],
     inherit |-> IF InheritKey \in DOMAIN defs THEN defs[InheritKey] ELSE None]

\* inherit, once substitute has put default_inherit for a false one
Inherit ==
    IF ~Truthy(Interpreted.inherit) THEN Self.default_inherit ELSE Interpreted.inherit

\* Template.from_filename(filename, namespace=..., get_template=...), on
\* the files fs: the Template, or what open or the parse raised
from_filename(filename, namespace, get_template, fs) ==
    IF filename \notin DOMAIN fs
    THEN Raise("IOError", "No such file or directory", NoPosition, None)
    ELSE LET cls(p) ==
                 IF p.raised THEN p
                 ELSE Return(Template(p.value, StrV(filename), namespace, get_template, None))
         IN  cls(parse(fs[filename], StrV(filename), 0))

\* get_file_template(name, from_template), on the files fs
get_file_template(name, from_template, fs) ==
    IF from_template.name.t # "str" \/ name.t # "str"
    THEN Raise("TypeError", "unsupported operand type(s) for +", NoPosition, None)
    ELSE from_filename(from_template.name.s \o <<"\\">> \o name.s,
                       DictV(from_template.namespace),
                       from_template.get_template, fs)

\* substitute returns result: no template is inherited from.  A substitute
\* that _interpret_inherit called returns to it, and it returns the same
\* value to the substitute that called it, up to the caller.
SubstituteReturn ==
    /\ AtReturn
    /\ ~Truthy(Inherit)
    /\ result' = Return(StrV(Interpreted.result))
    /\ stack' = <<>>
    /\ pc' = "ready"
    /\ UNCHANGED <<content, trim, lexed, parsed, args, files, tmpl, dicts, out, defs,
                   exc, calls, evaluated>>

\* _interpret_inherit: if not self.get_template: raise TemplateError(...)
InheritWithoutGetTemplate ==
    /\ AtReturn
    /\ Truthy(Inherit)
    /\ ~Truthy(Self.get_template)
    /\ exc' = TemplateError(
                  "You cannot use inheritance without passing in get_template",
                  NoPosition, Self.name)
    /\ stack' = Pop(stack)
    /\ UNCHANGED <<content, trim, lexed, parsed, pc, args, files, tmpl, dicts, out,
                   defs, result, calls, evaluated>>

\* _interpret_inherit: the template inherited from is fetched, and
\* substituted with a copy of ns in which self is the TemplateObject
InheritCall ==
    /\ AtReturn
    /\ Truthy(Inherit)
    /\ Truthy(Self.get_template)
    /\ \E templ \in {get_file_template(Inherit, Self, files)} :
          IF templ.raised
          THEN /\ exc' = templ
               /\ stack' = Pop(stack)
               /\ UNCHANGED <<dicts, out, defs>>
          ELSE LET self_ == TemplateObject(Self.name,
                                (BodyKey :> StrV(Interpreted.result)) @@ Interpreted.defs)
                   ds == Append(dicts, SetItem(dicts[Ns], SelfKey, self_))
                   e == EnterSubstitute(templ.value, Len(ds), ds)
               IN  /\ dicts' = e.dicts
                   /\ stack' = Pop(stack) \o e.frames
                   /\ out' = <<>>
                   /\ defs' = EmptyDict
                   /\ exc' = NoExc
    /\ UNCHANGED <<content, trim, lexed, parsed, pc, args, files, tmpl, result, calls,
                   evaluated>>

\* an exception is in flight
Unwinding == pc = "running" /\ exc # NoExc /\ stack # <<>>

\* except _TemplateContinue: continue -- the loop goes on with its next item
CatchContinue ==
    /\ Unwinding
    /\ Top.kind = "for"
    /\ exc.type = "_TemplateContinue"
    /\ exc.type \in ForCatches
    /\ exc' = NoExc
    /\ UNCHANGED <<content, trim, lexed, parsed, pc, args, files, tmpl, dicts, stack,
                   out, defs, result, calls, evaluated>>

\* except _TemplateBreak: break -- the loop ends and _interpret_for returns
CatchBreak ==
    /\ Unwinding
    /\ Top.kind = "for"
    /\ exc.type = "_TemplateBreak"
    /\ exc.type \in ForCatches
    /\ exc' = NoExc
    /\ stack' = Pop(stack)
    /\ UNCHANGED <<content, trim, lexed, parsed, pc, args, files, tmpl, dicts, out,
                   defs, result, calls, evaluated>>

\* the exception leaves an activation that does not catch it
Propagate ==
    /\ Unwinding
    /\ Len(stack) >= 2
    /\ ~(Top.kind = "for" /\ exc.type \in ForCatches)
    /\ stack' = Pop(stack)
    /\ UNCHANGED <<content, trim, lexed, parsed, pc, args, files, tmpl, dicts, out,
                   defs, exc, result, calls, evaluated>>

\* the exception leaves the caller's substitute call
SubstituteRaises ==
    /\ Unwinding
    /\ Len(stack) = 1
    /\ ~(Top.kind = "for" /\ exc.type \in ForCatches)
    /\ result' = exc
    /\ exc' = NoExc
    /\ stack' = <<>>
    /\ pc' = "ready"
    /\ UNCHANGED <<content, trim, lexed, parsed, args, files, tmpl, dicts, out, defs,
                   calls, evaluated>>

-----------------------------------------------------------------------------
(* SpecLex: lex called on every text of at most MaxLen characters.         *)

\* the texts of at most n characters over the set chars
Texts(chars, n) == UNION {[1..k -> chars] : k \in 0..n}

\* the texts handed to lex are made of the characters LexChars
InitLex ==
    LET LexChars == {"{", "}", "a", "\n"}
    IN  /\ content \in Texts(LexChars, MaxLen)
        /\ trim \in BOOLEAN
        /\ lexed = NotCalled
        /\ parsed = NotCalled
        /\ pc = "start"
        /\ NoCall

\* a call lex(content, trim_whitespace=trim)
LexCall ==
    /\ pc = "start"
    /\ lexed' = lex(content, None, trim, 0)
    /\ pc' = "lexed"
    /\ UNCHANGED <<content, trim, parsed>>
    /\ UNCHANGED callVars

NextLex == LexCall

SpecLex == InitLex /\ [][NextLex]_vars

-----------------------------------------------------------------------------
(* SpecParse: parse called on every text made of at most MaxParseFrags     *)
(* directives and literals.                                                *)

\* the directive {{text}}
Directive(text) == <<"{", "{">> \o text \o <<"}", "}">>

\* the texts handed to parse are made of the pieces ParseFrags
InitParse ==
    LET ParseFrags ==
            { <<"\n">>,
              Directive(kw.if \o <<" ", "x">>),
              Directive(kw.elif \o <<" ", "y">>),
              Directive(kw.else),
              Directive(kw.endif),
              Directive(kw.for \o <<" ", "a", " ", "i", "n", " ", "l">>),
              Directive(kw.endfor),
              Directive(kw.continue),
              Directive(kw.break) }
    IN  /\ content \in {Join(fs) : fs \in UNION {[1..k -> ParseFrags] : k \in 0..MaxParseFrags}}
        /\ trim = TRUE
        /\ lexed = NotCalled
        /\ parsed = NotCalled
        /\ pc = "start"
        /\ NoCall

\* a call parse(content)
ParseCall ==
    /\ pc = "start"
    /\ parsed' = parse(content, None, 0)
    /\ pc' = "parsed"
    /\ UNCHANGED <<content, trim, lexed>>
    /\ UNCHANGED callVars

NextParse == ParseCall

SpecParse == InitParse /\ [][NextParse]_vars

-----------------------------------------------------------------------------
(* Spec: a caller builds one Template and calls substitute on it, up to    *)
(* MaxCalls times, every time with the same mapping object.  The templates *)
(* are those of five families: loops, conditionals, expressions with       *)
(* filters, defaults and py blocks, and inheritance.                       *)

\* a dictionary with the given keys bound to the given values
Dict(keys, values) ==
    [k \in {keys[i] : i \in 1..Len(keys)} |->
        values[CHOOSE i \in 1..Len(keys) : keys[i] = k]]

\* the arguments of Template(...) that are not the content, and the mapping
\* the caller hands to substitute
Args(name, namespace, get_template, default_inherit, mapping) ==
    [name |-> name, namespace |-> namespace, get_template |-> get_template,
     default_inherit |-> default_inherit, mapping |-> mapping]

\* Template(content, name='t'), substituted with the mapping
Plain(mapping) == Args(StrV(<<"t">>), None, None, None, mapping)

Scenario(text, a, fs) == [content |-> text, args |-> a, files |-> fs]

\* loops: for a in l, l the list [1, ..., MaxItems], over a body of at most
\* MaxStmts statements, some of them breaks and continues, bare, under an
\* if, and in an inner loop
LoopScenarios ==
    LET Range(n) == ListV([k \in 1..n |-> IntV(k)])
        LoopStmts ==
            { Directive(<<"a">>),
              Directive(kw.break),
              Directive(kw.continue),
              Directive(<<"i", "f", " ", "x">>) \o Directive(kw.break) \o Directive(kw.endif),
              Directive(<<"i", "f", " ", "x">>) \o Directive(kw.continue) \o Directive(kw.endif),
              Directive(<<"f", "o", "r", " ", "b", " ", "i", "n", " ", "l">>) \o Directive(<<"b">>) \o Directive(kw.break) \o Directive(kw.endfor),
              Directive(<<"f", "o", "r", " ", "b", " ", "i", "n", " ", "l">>) \o Directive(kw.continue) \o Directive(<<"b">>) \o Directive(kw.endfor) }
    IN  { Scenario(Directive(<<"f", "o", "r", " ", "a", " ", "i", "n", " ", "l">>) \o Join(body) \o Directive(kw.endfor) \o <<".">>,
                   Plain(Dict(<<<<"l">>, <<"x">>>>, <<Range(MaxItems), x>>)), <<>>) :
            body \in Texts(LoopStmts, MaxStmts), x \in {IntV(0), IntV(1)} }

\* loops whose items are unpacked, or whose value is no list, and loops
\* whose header names no variable, has no "in", or has a parenthesis
UnpackScenarios ==
    { Scenario(Directive(loop) \o Directive(<<"a">>) \o Directive(kw.endfor),
               Plain(Dict(<<<<"l">>>>, <<l>>)), <<>>) :
        loop \in { <<"f", "o", "r", " ", "a", ",", " ", "b", " ", "i", "n", " ", "l">>,
                   <<"f", "o", "r", " ", "a", " ", "i", "n", " ", "l">>,
                   <<"f", "o", "r", " ", ",", " ", "i", "n", " ", "l">>,
                   <<"f", "o", "r", " ", "i", "n", " ", "l">>,
                   <<"f", "o", "r", " ", "(", "a", ")", " ", "i", "n", " ", "l">> },
        l \in { ListV(<<TupleV(<<IntV(1), IntV(2)>>)>>), ListV(<<TupleV(<<IntV(1)>>)>>),
                ListV(<<IntV(1)>>), StrV(<<"a", "b">>), None } }

\* conditionals: an if and at most MaxStmts branches after it; z is never
\* bound
CondScenarios ==
    LET CondBranches ==
            { Directive(<<"e", "l", "i", "f", " ", "x">>) \o <<"2">>, Directive(<<"e", "l", "i", "f", " ", "y">>) \o <<"3">>,
              Directive(<<"e", "l", "i", "f", " ", "z">>) \o <<"4">>, Directive(kw.else) \o <<"5">> }
    IN  { Scenario(Directive(<<"i", "f", " ">> \o c) \o <<"1">> \o Join(branches) \o Directive(kw.endif),
                   Plain(Dict(<<<<"x">>, <<"y">>>>, <<x, y>>)), <<>>) :
            c \in {<<"x">>, <<"y">>, <<"z">>}, branches \in Texts(CondBranches, MaxStmts),
            x \in {IntV(0), IntV(1)}, y \in {IntV(0), IntV(1)} }

\* expressions: x with at most MaxStmts filters
ExprScenarios ==
    LET Filters == { <<"|", "'", "d", "'">>, <<"|", "\"", " ", "\"">>, <<"|", "s", "t", "r">>, <<"|", "l", "e", "n">>, <<"|", "f">>, <<"|">> }
    IN  { Scenario(<<"{", "{", "x">> \o Join(filters) \o <<"}", "}">>,
                   Args(name, None, None, None, mapping), <<>>) :
            filters \in Texts(Filters, MaxStmts),
            name \in {None, StrV(<<"t">>)},
            mapping \in {<<>>} \cup
                        {Dict(<<<<"x">>>>, <<x>>) : x \in {None, StrV(<<" ">>), StrV(<<"a", "b">>), IntV(3)}} }

\* defaults, py blocks and comments, with and without a base namespace
DefaultScenarios ==
    LET DefaultStmts ==
            { Directive(<<"d", "e", "f", "a", "u", "l", "t", " ", "x", " ", "=", " ", "5">>), Directive(<<"d", "e", "f", "a", "u", "l", "t", " ", "x", " ", "=", " ", "y">>), Directive(<<"p", "y", ":", "x", " ", "=", " ", "7">>),
              Directive(<<"x">>), Directive(<<"#", " ", "c">>) }
    IN  { Scenario(Join(stmts), Args(StrV(<<"t">>), namespace, None, None, mapping), <<>>) :
            stmts \in Texts(DefaultStmts, MaxStmts),
            namespace \in {None, DictV(Dict(<<<<"x">>>>, <<IntV(3)>>))},
            mapping \in {<<>>} \cup {Dict(<<<<"x">>>>, <<x>>) : x \in {None, IntV(10)}} }

\* inheritance: the child, and the file t\p its parent is read from
InheritScenarios ==
    LET ChildTexts ==
            { Directive(<<"i", "n", "h", "e", "r", "i", "t", " ", "'", "p", "'">>) \o <<"B">>,
              Directive(<<"p", "y", ":", "x", " ", "=", " ", "1">>) \o Directive(<<"i", "n", "h", "e", "r", "i", "t", " ", "'", "p", "'">>) \o <<"B">>,
              Directive(<<"i", "n", "h", "e", "r", "i", "t", " ", "x">>) \o <<"B">>,
              Directive(<<"i", "n", "h", "e", "r", "i", "t", " ", "'", "q", "'">>),
              Directive(<<"i", "n", "h", "e", "r", "i", "t", " ", "1">>),
              <<"B">> }
        ParentTexts ==
            { <<"<">> \o Directive(<<"s", "e", "l", "f", ".", "b", "o", "d", "y">>) \o <<">">>,
              Directive(<<"s", "e", "l", "f", ".", "x">>),
              Directive(<<"s", "e", "l", "f", ".", "g", "e", "t", ".", "x">>) \o Directive(<<"x">>),
              Directive(<<"i", "n", "h", "e", "r", "i", "t", " ", "'", "p", "'">>),
              <<"{", "{">> }
    IN  { Scenario(child, Args(name, None, get_template, default_inherit, <<>>),
                   (<<"t", "\\", "p">> :> parent)) :
            child \in ChildTexts, parent \in ParentTexts,
            name \in {None, StrV(<<"t">>)},
            get_template \in {None, FuncV(<<"g", "e", "t", "_", "f", "i", "l", "e", "_", "t", "e", "m", "p", "l", "a", "t", "e">>)},
            default_inherit \in {None, StrV(<<"p">>)} }

Scenarios ==
    LoopScenarios \cup UnpackScenarios \cup CondScenarios \cup ExprScenarios
    \cup DefaultScenarios \cup InheritScenarios

Init ==
    /\ \E s \in Scenarios :
          /\ content = s.content
          /\ args = s.args
          /\ files = s.files
          /\ dicts = <<s.args.mapping>>
    /\ trim = TRUE
    /\ lexed = NotCalled
    /\ parsed = NotCalled
    /\ pc = "start"
    /\ tmpl = <<>>
    /\ stack = <<>>
    /\ out = <<>>
    /\ defs = EmptyDict
    /\ exc = NoExc
    /\ result = NotCalled
    /\ calls = 0
    /\ evaluated = <<>>

Next ==
    \/ Construct
    \/ \E positional \in BOOLEAN : SubstituteCall(positional)
    \/ InterpretString
    \/ InterpretPy
    \/ InterpretContinue
    \/ InterpretBreak
    \/ InterpretFor
    \/ ForNotIterable
    \/ ForBind
    \/ ForBindRaises
    \/ ForExhausted
    \/ InterpretCond
    \/ IfReturn
    \/ CodesReturn
    \/ InterpretExpr
    \/ FilterEmpty
    \/ FilterQuoted
    \/ FilterCall
    \/ ExprAppend
    \/ InterpretDefault
    \/ InterpretInherit
    \/ InterpretComment
    \/ SubstituteReturn
    \/ InheritWithoutGetTemplate
    \/ InheritCall
    \/ CatchContinue
    \/ CatchBreak
    \/ Propagate
    \/ SubstituteRaises

Spec == Init /\ [][Next]_vars

-----------------------------------------------------------------------------
(* Claims about the lexer.                                                 *)

RECURSIVE Delims(_, _)
\* the delimiters of s from (1-based) index i on, scanned left to right:
\* "{{" and "}}" in the order they are met
Delims(s, i) ==
    IF i + 1 > Len(s) THEN <<>>
    ELSE IF TokenAt(s, i)
    THEN <<IF s[i] = "{" THEN "{{" ELSE "}}">> \o Delims(s, i + 2)
    ELSE Delims(s, i + 1)

\* no "{{" while a directive is open, no "}}" while none is, none left open:
\* the delimiters are "{{", "}}", "{{", "}}", ...
Balanced(d) ==
    /\ Len(d) % 2 = 0
    /\ \A k \in 1..Len(d) : d[k] = (IF k % 2 = 1 THEN "{{" ELSE "}}")

\* a token of lex's result: a string, or a (text, (line, column)) pair
IsToken(tok) ==
    \/ /\ tok.kind = "str"
       /\ DOMAIN tok = {"kind", "text"}
    \/ /\ tok.kind = "tuple"
       /\ DOMAIN tok = {"kind", "text", "pos"}
       /\ Len(tok.pos) = 2 /\ tok.pos[1] >= 1 /\ tok.pos[2] >= 1

\* C1: lex(text) raises a TemplateError exactly when the delimiters of text,
\* scanned left to right, are unbalanced (a {{ inside a directive, a }}
\* outside one, or the input ending inside one); for every other text it
\* returns a sequence of tokens.
C1_LexFailsIffUnbalanced ==
    pc = "lexed" =>
        /\ lexed.raised <=> ~Balanced(Delims(content, 1))
        /\ lexed.raised => lexed.type = "TemplateError"
        /\ ~lexed.raised => \A k \in 1..Len(lexed.value) : IsToken(lexed.value[k])

\* lex has raised on a text that ends inside an open directive
C1_Witness ==
    /\ pc = "lexed"
    /\ lexed.raised
    /\ lexed.message = "No }} to finish last expression"

-----------------------------------------------------------------------------
(* Claims about the parser.                                                *)

\* the tokens parse works on: lex's result for the text
TokensOf(s) == lex(s, None, TRUE, 0).value

\* the directive token tok opens a block of the kind "if" or "for", closes
\* one, or does neither
Opens(tok, word) == ~IsStr(tok) /\ StartsWith(tok.text, word \o <<" ">>)
Closes(tok) == ~IsStr(tok) /\ tok.text \in {kw.endif, kw.endfor}

RECURSIVE OpenBlocks(_, _)
\* the blocks open before token k of toks, innermost last: every "if " and
\* "for " directive opens one, every endif and endfor closes the innermost
OpenBlocks(toks, k) ==
    IF k <= 1 THEN <<>>
    ELSE LET before == OpenBlocks(toks, k - 1)
             tok == toks[k - 1]
         IN  IF Opens(tok, kw.if) THEN Append(before, "if")
             ELSE IF Opens(tok, kw.for) THEN Append(before, "for")
             ELSE IF Closes(tok) /\ before # <<>>
             THEN SubSeq(before, 1, Len(before) - 1)
             ELSE before

\* the continue and break directives of toks with no for block open around
\* them
Unenclosed(toks) ==
    {k \in 1..Len(toks) :
        /\ ~IsStr(toks[k])
        /\ toks[k].text \in {kw.continue, kw.break}
        /\ ~InFor(OpenBlocks(toks, k))}

\* the errors parse raises only when the tokens run out
EndOfInputMessages == {"No {{endif}}", "Missing {{endif}}", "No {{endfor}}"}

\* C2: a continue or break with no for block around it, at any depth, makes
\* parse raise a TemplateError at that directive's own position (unless an
\* earlier directive was already refused); a continue or break with a for
\* block around it, also through if blocks, is never refused.
C2_ContinueBreakNeedFor ==
    pc = "parsed" =>
        LET toks == TokensOf(content)
            U == Unenclosed(toks)
        IN  IF U = {}
            THEN parsed.raised => parsed.message # "continue outside of for loop"
            ELSE LET k == CHOOSE k \in U : \A j \in U : k <= j
                 IN  /\ parsed.raised
                     /\ parsed.type = "TemplateError"
                     /\ \/ /\ parsed.message = "continue outside of for loop"
                           /\ parsed.position = toks[k].pos
                        \/ /\ parsed.message \notin EndOfInputMessages
                           /\ \E j \in 1..(k - 1) :
                                  ~IsStr(toks[j]) /\ parsed.position = toks[j].pos

\* parse has refused a break that stands in an if block, outside any for
C2_Witness ==
    /\ pc = "parsed"
    /\ parsed.raised
    /\ parsed.message = "continue outside of for loop"
    /\ \E k \in 1..Len(TokensOf(content)) :
           /\ ~IsStr(TokensOf(content)[k])
           /\ TokensOf(content)[k].text = kw.break
           /\ TokensOf(content)[k].pos = parsed.position
           /\ OpenBlocks(TokensOf(content), k) = <<"if">>

\* C7 as claimed: when an if block has no endif before the tokens run out,
\* the TemplateError of parse is positioned at the opening if directive.
C7_NoEndifReportsOpeningIf ==
    (pc = "parsed" /\ parsed.raised
        /\ parsed.message \in {"No {{endif}}", "Missing {{endif}}"}) =>
        \E k \in 1..Len(TokensOf(content)) :
            /\ Opens(TokensOf(content)[k], kw.if)
            /\ TokensOf(content)[k].pos = parsed.position

-----------------------------------------------------------------------------
(* Claims about rendering.                                                 *)

\* the exceptions continue and break are rendered by
Signals == {"_TemplateContinue", "_TemplateBreak"}

\* a continue or break signal is in flight
Signalled == exc # NoExc /\ exc.type \in Signals

\* the activations of _interpret_for that enclose the running code within
\* the running substitute
EnclosingFors(st) ==
    {k \in 1..Len(st) : /\ st[k].kind = "for"
                        /\ \A j \in k..Len(st) : st[j].kind # "substitute"}

\* C3: during rendering, a break ends only the nearest enclosing For loop
\* (no further item of it is processed) and a continue abandons only the
\* rest of the current iteration of the nearest enclosing For loop (the loop
\* is left at the head of its next iteration); the loops around it are left
\* as they were, the output appended before the signal is kept, and no
\* signal leaves the For that owns it or leaves substitute.  In steps: a
\* signal is raised only within a For; while it is in flight it leaves only
\* activations that are neither a For nor substitute, and changes no
\* output; it ends only at the For on top of the stack, which a break
\* removes and a continue keeps; and substitute never raises a signal.
C3_SignalsScopedToNearestFor ==
    [][ /\ (exc = NoExc /\ exc' # NoExc /\ exc'.type \in Signals) =>
              /\ EnclosingFors(stack') # {}
              /\ out' = out
        /\ (Signalled /\ exc' = exc) =>
              /\ Top.kind \notin {"for", "substitute"}
              /\ stack' = Pop(stack)
              /\ out' = out
              /\ pc' = "running"
        /\ (Signalled /\ exc' # exc) =>
              /\ exc' = NoExc
              /\ Top.kind = "for"
              /\ out' = out
              /\ pc' = "running"
              /\ stack' = IF exc.type = "_TemplateBreak" THEN Pop(stack) ELSE stack
        /\ (result'.raised => result'.type \notin Signals)
      ]_vars

\* a break has reached the loop that owns it: that loop has items left, a
\* loop around it is running, and output was appended before the break
C3_Witness ==
    /\ Signalled
    /\ exc.type = "_TemplateBreak"
    /\ Top.kind = "for"
    /\ Top.k < Len(Iterate(Top.items).value)
    /\ \E j \in 1..(Len(stack) - 1) : stack[j].kind = "for"
    /\ out # <<>>

\* the condition of the k-th branch of the Cond about to be interpreted,
\* as the evaluator finds it on the namespace
CondValue(k) == Eval(Item.parts[k].expr, default_namespace, dicts[Ns])
BranchTruthy(k) ==
    \/ Item.parts[k].name = "else"
    \/ ~CondValue(k).raised /\ Truthy(CondValue(k).value)
BranchRaises(k) == Item.parts[k].name # "else" /\ CondValue(k).raised

\* the evaluator calls for the conditions of the first n branches
CondCalls(n) ==
    LET Call1(part) == EvalCall("eval", part.expr, part.pos)
        tested == SelectSeq(SubSeq(Item.parts, 1, n), LAMBDA part : part.name # "else")
    IN  [k \in 1..Len(tested) |-> Call1(tested[k])]

\* C4: rendering a Cond evaluates the conditions of its branches in order,
\* up to the first branch that is an else or whose condition is truthy;
\* the body of that branch, and of no other, is interpreted, and no later
\* condition is evaluated; when no branch is truthy no body is interpreted;
\* and when the body has run the Cond is over.
C4_FirstTruthyBranchOnly ==
    [][ /\ (AtItem /\ Item.name = "cond") =>
              LET Stops == {k \in 1..Len(Item.parts) : BranchTruthy(k) \/ BranchRaises(k)}
              IN  /\ out' = out
                  /\ dicts' = dicts
                  /\ IF Stops = {}
                     THEN /\ evaluated' = evaluated \o CondCalls(Len(Item.parts))
                          /\ stack' = Advanced
                          /\ exc' = NoExc
                     ELSE LET k == CHOOSE k \in Stops : \A j \in Stops : k <= j
                          IN  /\ evaluated' = evaluated \o CondCalls(k)
                              /\ BranchTruthy(k) =>
                                    /\ exc' = NoExc
                                    /\ stack' = Advanced \o
                                           <<IfFrame, CodesFrame(Item.parts[k].content)>>
        /\ (pc = "running" /\ exc = NoExc /\ stack # <<>> /\ Top.kind = "if") =>
              /\ stack' = Pop(stack)
              /\ evaluated' = evaluated
              /\ out' = out
      ]_vars

\* the body of an elif branch runs, after a condition that was false and
\* before an else branch that is passed over
C4_Witness ==
    /\ pc = "running"
    /\ Len(stack) >= 3
    /\ Top.kind = "codes"
    /\ stack[Len(stack) - 1].kind = "if"
    /\ stack[Len(stack) - 2].kind = "codes"
    /\ LET cond == stack[Len(stack) - 2].codes[stack[Len(stack) - 2].i - 1]
       IN  /\ cond.name = "cond"
           /\ Len(cond.parts) = 3
           /\ cond.parts[2].name = "elif"
           /\ Top.codes = cond.parts[2].content
           /\ cond.parts[3].name = "else"
           /\ Len(evaluated) = 2

\* C5: rendering a Default binds var to the value of expr only when var is
\* absent from the namespace; when var is bound already (by the caller's
\* mapping, the base namespace or an earlier directive) the expression is
\* not evaluated and the namespace is left as it is.
C5_DefaultBindsOnlyWhenAbsent ==
    [][ (AtItem /\ Item.name = "default") =>
            IF Item.var \in DOMAIN dicts[Ns]
            THEN /\ dicts' = dicts
                 /\ evaluated' = evaluated
                 /\ exc' = NoExc
            ELSE /\ evaluated' = Append(evaluated, EvalCall("eval", Item.expr, Item.pos))
                 /\ LET r == Eval(Item.expr, default_namespace, dicts[Ns])
                    IN  IF r.raised THEN dicts' = dicts /\ exc' # NoExc
                        ELSE /\ dicts' = [dicts EXCEPT ![Ns] = SetItem(@, Item.var, r.value)]
                             /\ exc' = NoExc
      ]_vars

\* a default whose expression would raise (y is bound nowhere) was passed
\* over, x being bound to None by the caller
C5_Witness ==
    /\ pc = "running"
    /\ exc = NoExc
    /\ stack # <<>>
    /\ Top.kind = "codes"
    /\ Top.i > 1
    /\ Top.codes[Top.i - 1].name = "default"
    /\ Top.codes[Top.i - 1].expr = <<"y">>
    /\ <<"x">> \in DOMAIN args.mapping
    /\ args.mapping[<<"x">>] = None
    /\ dicts[Ns][<<"x">>] = None

\* an activation for an expr item is on top of the stack
AtExpr == pc = "running" /\ exc = NoExc /\ stack # <<>> /\ Top.kind = "expr"

\* the activation on top of the stack after the step goes on with the next
\* filter, with the running value base
NextFilter(base) ==
    /\ Len(stack') = Len(stack)
    /\ stack'[Len(stack)] = [Top EXCEPT !.base = base, !.parts = Tail(Top.parts)]
    /\ SubSeq(stack', 1, Len(stack) - 1) = SubSeq(stack, 1, Len(stack) - 1)

\* C6: rendering an Expr evaluates the base expression, then applies the
\* filters from left to right: a quoted filter replaces the running value
\* by its inside only when the string form of the running value is blank,
\* and leaves it as it is otherwise; any other filter is evaluated and its
\* value is called with the running value, whose place the result takes;
\* and the string form of the last value is appended to the output.
C6_FiltersLeftToRight ==
    [][ /\ (AtItem /\ Item.name = "expr") =>
              LET parts == Split(Item.text, "|")
                  r == Eval(parts[1], default_namespace, dicts[Ns])
              IN  /\ evaluated' = Append(evaluated, EvalCall("eval", parts[1], Item.pos))
                  /\ out' = out
                  /\ ~r.raised =>
                        /\ exc' = NoExc
                        /\ stack' = Append(Advanced, ExprFrame(r.value, Tail(parts), Item.pos))
        /\ (AtExpr /\ Top.parts # <<>> /\ Filter # <<>>) =>
              /\ out' = out
              /\ IF Head(Filter) \in {"'", "\""} /\ Filter[Len(Filter)] = Head(Filter)
                 THEN /\ evaluated' = evaluated
                      /\ exc' = NoExc
                      /\ NextFilter(IF Strip(ToStringOf(Top.base)) = <<>>
                                    THEN StrV(SubSeq(Filter, 2, Len(Filter) - 1))
                                    ELSE Top.base)
                 ELSE /\ evaluated' = Append(evaluated, EvalCall("eval", Filter, Top.pos))
                      /\ LET f == Eval(Filter, default_namespace, dicts[Ns])
                         IN  (~f.raised /\ ~Call(f.value, Top.base).raised) =>
                                 /\ exc' = NoExc
                                 /\ NextFilter(Call(f.value, Top.base).value)
        /\ (AtExpr /\ Top.parts = <<>>) =>
              /\ out' = Append(out, ToStringOf(Top.base))
              /\ stack' = Pop(stack)
              /\ evaluated' = evaluated
      ]_vars

\* {{x|len|'d'|str}}-like chains end: a blank x got the fallback d, which
\* the caller received
C6_Witness ==
    /\ pc = "ready"
    /\ calls > 0
    /\ content = <<"{", "{", "x", "|", "\"", " ", "\"", "|", "'", "d", "'", "}", "}">>
    /\ <<"x">> \in DOMAIN args.mapping
    /\ args.mapping[<<"x">>] = StrV(<<" ">>)
    /\ result = Return(StrV(<<"d">>))

\* C8 as claimed: once a call of substitute is over, the mapping the caller
\* handed to it is as it was: no entry was added to it or changed in it.
C8_CallerMappingNotMutated ==
    pc = "ready" => dicts[CallerMap] = args.mapping

\* C9 as claimed: an error substitute raises carries the line and column of
\* the directive that failed and the name of the template, when the
\* template has one.
C9_ErrorsCarryPositionAndName ==
    (pc = "ready" /\ result.raised) =>
        /\ result.position # NoPosition
        /\ Truthy(args.name) => result.name # None

\* the names the assignments of a py block bind
AssignedNames(code) ==
    {RStrip(Split1(SplitLines(code)[k], "=")[1], {" ", "\t"}) :
        k \in {i \in 1..Len(SplitLines(code)) : Strip(SplitLines(code)[i]) # <<>>}}

\* the names the py blocks that were executed bound
PyBound ==
    UNION {AssignedNames(evaluated[k].code) :
              k \in {i \in 1..Len(evaluated) : evaluated[i].op = "exec"}}

\* names that are attributes of no proxy
OtherAttrs == {<<"x">>, <<"z", "z">>}

\* C10 as claimed: when the parent starts to render, self in its namespace
\* has the child's body as body, has one attribute for each name the
\* child's py blocks bound, holding the value bound, and yields Empty for
\* other attributes.
C10_ProxyExposesBodyAndPyNames ==
    (/\ pc = "running"
     /\ exc = NoExc
     /\ Len(stack) = 3
     /\ stack[2].kind = "substitute"
     /\ Top.kind = "codes"
     /\ Top.i = 1) =>
        LET proxy == dicts[stack[2].ns][SelfKey]
            child == dicts[stack[1].ns]
        IN  /\ ~GetAttr(proxy, BodyKey).raised
            /\ GetAttr(proxy, BodyKey).value.t = "str"
            /\ \A n \in PyBound : GetAttr(proxy, n) = Return(child[n])
            /\ \A n \in OtherAttrs \ PyBound : GetAttr(proxy, n) = Return(Empty)

-----------------------------------------------------------------------------
(* Claims about the trimming of whitespace and about positions.            *)

\* the directives the trimming is claimed to apply to: those that begin
\* with a statement keyword, else among them, and the single statements
ClaimedStatement(text) ==
    \/ \E w \in {kw.if, kw.elif, kw.for, <<"d", "e", "f">>, kw.inherit, kw.default} :
          StartsWith(text, w \o <<" ">>)
    \/ StartsWith(text, kw.else)
    \/ StartsWith(text, kw.py)
    \/ text \in {kw.endif, kw.endfor, kw.enddef, kw.continue, kw.break}

\* only spaces and tabs
OnlyBlanks(s) == \A k \in 1..Len(s) : s[k] \in {" ", "\t"}

\* the places of the newlines of s
Newlines(s) == {k \in 1..Len(s) : s[k] = "\n"}

\* the directive i of the tokens occupies a line by itself: only blanks
\* between the preceding newline (or the start of the input) and it, and
\* only blanks up to the following newline (or the end of the input)
StandsAlone(tokens, i) ==
    /\ \/ i = 1
       \/ /\ IsStr(tokens[i - 1])
          /\ LET before == tokens[i - 1].text
             IN  IF Newlines(before) = {} THEN i = 2 /\ OnlyBlanks(before)
                 ELSE \E k \in Newlines(before) : OnlyBlanks(SubSeq(before, k + 1, Len(before)))
    /\ \/ i = Len(tokens)
       \/ /\ IsStr(tokens[i + 1])
          /\ LET after == tokens[i + 1].text
             IN  IF Newlines(after) = {} THEN i + 1 = Len(tokens) /\ OnlyBlanks(after)
                 ELSE \E k \in Newlines(after) : OnlyBlanks(SubSeq(after, 1, k - 1))

\* the tokens trimmed hold, around the directive i of the tokens untrimmed,
\* a literal before it that ends at a newline (its indentation is gone) and
\* a literal after it that lost the rest of the line with its newline
TrimmedAround(untrimmed, trimmed, i) ==
    /\ Len(trimmed) = Len(untrimmed)
    /\ i > 1 =>
          \/ trimmed[i - 1].text = <<>>
          \/ trimmed[i - 1].text[Len(trimmed[i - 1].text)] = "\n"
    /\ i < Len(untrimmed) =>
          Len(trimmed[i + 1].text) < Len(untrimmed[i + 1].text)

\* C11 as claimed: with trimming on, every directive that occupies a line
\* by itself and begins with a statement keyword (if, elif, else, for, def,
\* inherit, default, py:) or is a single statement (endif, endfor, enddef,
\* continue, break) has its indentation and the newline after it removed
\* from the literals around it; a line holding {{else}} is trimmed like a
\* line holding {{endif}}.
C11_StandaloneStatementsTrimmed ==
    pc = "parsed" =>
        LET Holds(untrimmed, trimmed) ==
                ~untrimmed.raised =>
                    \A i \in 1..Len(untrimmed.value) :
                        (/\ ~IsStr(untrimmed.value[i])
                         /\ ClaimedStatement(untrimmed.value[i].text)
                         /\ StandsAlone(untrimmed.value, i)) =>
                            TrimmedAround(untrimmed.value, trimmed.value, i)
        IN  Holds(lex(content, None, FALSE, 0), lex(content, None, TRUE, 0))

\* C12 as claimed: trim_lex is idempotent on the token sequences the lexer
\* produces: trimming the trimmed tokens once more changes nothing.
C12_TrimLexIdempotent ==
    pc = "parsed" =>
        LET Holds(tokens) ==
                ~tokens.raised => trim_lex(trim_lex(tokens.value)) = trim_lex(tokens.value)
        IN  Holds(lex(content, None, FALSE, 0))

RECURSIVE DelimPlaces(_, _)
\* the (1-based) places of the delimiters of s from index i on, scanned
\* left to right
DelimPlaces(s, i) ==
    IF i + 1 > Len(s) THEN <<>>
    ELSE IF TokenAt(s, i) THEN <<i>> \o DelimPlaces(s, i + 2)
    ELSE DelimPlaces(s, i + 1)

\* the 1-indexed (line, column) of the place after the (1-based) character
\* e of s: the column counts the characters since the last newline, plus one
PlaceAfter(s, e) ==
    LET before == {k \in 1..e : s[k] = "\n"}
        last == IF before = {} THEN 0 ELSE CHOOSE k \in before : \A j \in before : j <= k
    IN  <<Cardinality(before) + 1, e - last + 1>>

\* the directives among the tokens, in order
DirectivesOf(tokens) == SelectSeq(tokens, LAMBDA tok : ~IsStr(tok))

\* C13: the position lex records for a directive token is the 1-indexed
\* (line, column) of the place where the match of its opening delimiter {{
\* ended, which is the place of the first character after {{; the column
\* counts the characters since the last newline, plus one.
C13_PositionAfterOpeningDelimiter ==
    (pc = "lexed" /\ ~lexed.raised) =>
        LET places == DelimPlaces(content, 1)
            dirs == DirectivesOf(lexed.value)
        IN  /\ Len(places) = 2 * Len(dirs)
            /\ \A k \in 1..Len(dirs) :
                  dirs[k].pos = PlaceAfter(content, places[2 * k - 1] + 1)

\* lex returned the directive a of the second line of "\n{{a}}", with the
\* position (2, 3)
C13_Witness ==
    /\ pc = "lexed"
    /\ ~lexed.raised
    /\ content = <<"\n", "{", "{", "a", "}", "}">>
    /\ DirectivesOf(lexed.value) = <<TupleChunk(<<"a">>, <<2, 3>>)>>

\* C13 as claimed: the position lex records for a directive token is the
\* (line, column) at which its closing delimiter }} was matched.
C13_PositionOfClosingDelimiter ==
    (pc = "lexed" /\ ~lexed.raised) =>
        LET places == DelimPlaces(content, 1)
            dirs == DirectivesOf(lexed.value)
        IN  /\ Len(places) = 2 * Len(dirs)
            /\ \A k \in 1..Len(dirs) :
                  dirs[k].pos = PlaceAfter(content, places[2 * k] + 1)

RECURSIVE HasEmptyLiteral(_)
\* an item of the AST, at any depth, is the empty string
HasEmptyLiteral(nodes) ==
    \E k \in 1..Len(nodes) :
        \/ nodes[k] = StrNode(<<>>)
        \/ nodes[k].name = "for" /\ HasEmptyLiteral(nodes[k].content)
        \/ /\ nodes[k].name = "cond"
           /\ \E j \in 1..Len(nodes[k].parts) : HasEmptyLiteral(nodes[k].parts[j].content)

\* C14 as claimed: the tokens lex returns hold no literal of length zero,
\* with the trimming of whitespace on as with it off, and so the AST parse
\* builds holds no empty literal.
C14_NoEmptyLiteral ==
    pc = "parsed" =>
        LET NoEmpty(tokens) ==
                ~tokens.raised =>
                    \A k \in 1..Len(tokens.value) : tokens.value[k] # StrChunk(<<>>)
        IN  /\ NoEmpty(lex(content, None, FALSE, 0))
            /\ NoEmpty(lex(content, None, TRUE, 0))
            /\ ~parsed.raised => ~HasEmptyLiteral(parsed.value)

-----------------------------------------------------------------------------
(* Claims about the for loops of the AST.                                  *)

RECURSIVE HasForWithoutVars(_)
\* a for item of the AST, at any depth, has no loop variable
HasForWithoutVars(nodes) ==
    \E k \in 1..Len(nodes) :
        \/ /\ nodes[k].name = "for"
           /\ nodes[k].vars = <<>> \/ HasForWithoutVars(nodes[k].content)
        \/ /\ nodes[k].name = "cond"
           /\ \E j \in 1..Len(nodes[k].parts) : HasForWithoutVars(nodes[k].parts[j].content)

\* C15 as claimed: every for item of the AST parse builds has at least one
\* loop variable, a header without one being rejected, and so the rendering
\* of a for never meets an empty list of loop variables.
C15_ForHasLoopVariable ==
    /\ pc \in {"ready", "running"} => ~HasForWithoutVars(tmpl.parsed)
    /\ (pc = "running" /\ stack # <<>> /\ Top.kind = "for") => Top.vars # <<>>

=============================================================================
